---- MODULE Spec2Model ----
(***************************************************************************)
(* State-machine model of the postgres_to_es ETL process: the cycle        *)
(* controller (etl_process/main.py), the extractor and its five streams    *)
(* (data_extractor/main.py, repository.py), the watermark file             *)
(* (data_extractor/state.py), the transformer (data_transformer/main.py)   *)
(* and the loader (data_loader/main.py).                                   *)
(*                                                                         *)
(* Timestamps are small integers.  A row's content (full_name, name,       *)
(* title) changes exactly when its `modified` changes, so the content is   *)
(* represented by a tag that carries the id and the modification time.     *)
(***************************************************************************)
EXTENDS Integers, Sequences, FiniteSets, TLC

\* ------------------------------------------------------------------ bounds
\* LOAD_LIMIT of the run (page size of every limited query).
L == 1
\* Largest number of row updates in one behaviour.
MaxUpdates == 1
\* Largest number of faults (raised exceptions that the environment may or
\* may not cause, and kills of the process) in one behaviour.
MaxFaults == 1
\* Number of replays of one batch through the loader that are compared.
MaxReplays == 2

\* ------------------------------------------------------- relational source
Persons == {"p1", "p2"}
Genres == {"g1"}
Films == {"f1", "f2"}
Rows == Persons \cup Genres \cup Films
RowSeq == <<"p1", "p2", "g1", "f1", "f2">>

\* Link tables person_film_work and genre_film_work (p2 has no film).
PersonFilmWork ==
    << [film_work_id |-> "f1", person_id |-> "p1", role |-> "actor"],
       [film_work_id |-> "f2", person_id |-> "p1", role |-> "director"] >>
GenreFilmWork ==
    << [film_work_id |-> "f1", genre_id |-> "g1"] >>

\* ------------------------------------------------------------- watermarks
\* Keys of state.json, in the order start_process commits them.
Keys == <<"fw_persons", "fw_genres", "filmworks", "genres", "persons">>
KeySet == {Keys[i] : i \in 1..Len(Keys)}
\* Indexes of the document store, in the order load_data writes them.
Indexes == <<"movies", "genres", "persons">>

\* Python None, as read from and written to the JSON file.
None == <<"null", 0>>
\* datetime.isoformat() and datetime.fromisoformat().
isoformat(t) == <<"iso", t>>
fromisoformat(s) == s[2]
\* dt.datetime.min: smaller than every timestamp of the source.
DatetimeMin == 0

VARIABLES
    modified,         \* modified[id]: the `modified` column of row id
    state_file,       \* state.json: [ok, data]; ok = FALSE when not valid JSON
    es,               \* document store: es[index] is a set of documents
    pc,               \* position of start_process
    step,             \* index of the stream / load / commit in progress
    raw_data,         \* batches extracted so far in this cycle (key -> batch)
    transformed_data, \* result of transform_data, << >> before it ran
    loads_ok,         \* load calls of this cycle that returned
    start_state,      \* state_file when the cycle started
    error,            \* stage whose exception ended the cycle, or "none"
    delivered,        \* per direct stream: ids whose current version was in a
                      \* batch of a cycle whose three loads returned
    updates,          \* number of row updates so far
    faults,           \* number of injected exceptions and kills so far
    interrupted,      \* what the last kill interrupted
    attempt,          \* failed attempts of the remote call in progress
    failure,          \* exception the last attempt raised, or "none"
    outage,           \* service that has been unreachable since startup
    raised,           \* the loads that returned and, per stream, the ids of
                      \* the batch of the previous cycle when its load_data
                      \* raised, until this cycle transforms
    cache,            \* Redis of the read API: set of [key, value, expires]
    clock,            \* the time, in the unit of the cache TTL's scale
    request,          \* the last request the read API got
    response,         \* and its response: [status, body, detail, at]
    served            \* the 200 responses answered from the document store
                      \* less than a cache TTL ago: [request, response]

\* The state of the read API besides the document store.
api_vars == << cache, clock, request, response, served >>

\* The state of the ETL process besides the document store.
etl_vars == << modified, state_file, pc, step, raw_data, transformed_data,
              loads_ok, start_state, error, delivered, updates, faults,
              interrupted, attempt, failure, outage, raised >>

vars == << modified, state_file, es, pc, step, raw_data,
           transformed_data, loads_ok, start_state, error, delivered,
           updates, faults, interrupted, attempt, failure, outage, raised,
           cache, clock, request, response, served >>

\* --------------------------------------------------------------- helpers
Range(s) == {s[i] : i \in 1..Len(s)}
Min(a, b) == IF a <= b THEN a ELSE b

RECURSIVE SeqMax(_)
SeqMax(s) ==
    IF Len(s) = 1 THEN s[1]
    ELSE LET m == SeqMax(Tail(s)) IN IF s[1] >= m THEN s[1] ELSE m

\* All orderings of the finite set S.
Perms(S) ==
    {f \in [1..Cardinality(S) -> S] :
        \A i, j \in 1..Cardinality(S) : i # j => f[i] # f[j]}

\* ------------------------------------------------------------ source rows
\* Content of a row at its current version.
Content(id) == <<id, modified[id]>>

\* The empty string as the content of a text column.
EmptyString == << >>

PersonRow(id) == [id |-> id, full_name |-> Content(id), modified |-> modified[id]]
GenreRow(id) == [id |-> id, name |-> Content(id), modified |-> modified[id]]
\* A film row without its relationships loaded.
FilmRow(id) == [id |-> id, title |-> Content(id), modified |-> modified[id]]

\* selectinload(FilmWork.genres).joinedload(GenreFilmWork.genre): the genre
\* of a link is <<row>>, or << >> when the link has none.
FilmGenres(id) ==
    LET links == SelectSeq(GenreFilmWork, LAMBDA l : l.film_work_id = id)
    IN  [i \in 1..Len(links) |-> [genre |-> << GenreRow(links[i].genre_id) >>]]

\* selectinload(FilmWork.persons).joinedload(PersonFilmWork.person): the
\* person of a link is <<row>>, or << >> when the link has none.
FilmPersons(id) ==
    LET links == SelectSeq(PersonFilmWork, LAMBDA l : l.film_work_id = id)
    IN  [i \in 1..Len(links) |->
            [role |-> links[i].role,
             person |-> << PersonRow(links[i].person_id) >>]]

\* film_work.description (Text, nullable): f2 has none.
FilmDescription(id) == IF id = "f2" THEN None ELSE <<"description", 1>>

\* film_work.rating (Float, nullable): <<rating>>, or << >> for f2.
FilmRating(id) == IF id = "f2" THEN << >> ELSE << 8 >>

\* A film with its genre and person links eagerly loaded.
FilmAggregate(id) ==
    [id |-> id, title |-> Content(id), modified |-> modified[id],
     description |-> FilmDescription(id), rating |-> FilmRating(id),
     genres |-> FilmGenres(id), persons |-> FilmPersons(id)]

\* ------------------------------------------------------------- Repository
\* ORDER BY modified: every ordering of the rows that is ascending in
\* modified (rows with equal modified come in any order).
OrderByModified(S) ==
    {s \in Perms(S) : \A i, j \in 1..Len(s) : i < j => s[i].modified <= s[j].modified}

\* Mutant of Limit: the query has no LIMIT.
Unlimited(s) == s

\* LIMIT self._load_limit
Limit(s) == SubSeq(s, 1, Min(L, Len(s)))

\* The possible results of get_updated_persons(last_modified).
get_updated_persons(last_modified) ==
    {Limit(s) : s \in OrderByModified(
        {PersonRow(p) : p \in {q \in Persons : modified[q] > last_modified}})}

\* The possible results of get_updated_genres(last_modified).
get_updated_genres(last_modified) ==
    {Limit(s) : s \in OrderByModified(
        {GenreRow(g) : g \in {q \in Genres : modified[q] > last_modified}})}

\* The possible results of get_fw_by_updated_persons(person_ids).
get_fw_by_updated_persons(person_ids) ==
    {Limit(s) : s \in OrderByModified(
        {FilmRow(f) : f \in {x \in Films :
            \E i \in 1..Len(PersonFilmWork) :
                /\ PersonFilmWork[i].film_work_id = x
                /\ PersonFilmWork[i].person_id \in person_ids}})}

\* The possible results of get_fw_by_updated_genres(genre_ids).
get_fw_by_updated_genres(genre_ids) ==
    {Limit(s) : s \in OrderByModified(
        {FilmRow(f) : f \in {x \in Films :
            \E i \in 1..Len(GenreFilmWork) :
                /\ GenreFilmWork[i].film_work_id = x
                /\ GenreFilmWork[i].genre_id \in genre_ids}})}

\* The possible results of get_updated_filmworks_by_id(film_work_ids): no
\* ORDER BY, so the rows come in any order.
get_updated_filmworks_by_id(film_work_ids) ==
    Perms({FilmAggregate(f) : f \in (Films \cap film_work_ids)})

\* The possible results of get_updated_filmworks_by_timestamp(last_modified).
get_updated_filmworks_by_timestamp(last_modified) ==
    {Limit(s) : s \in OrderByModified(
        {FilmAggregate(f) : f \in {x \in Films : modified[x] > last_modified}})}

\* ------------------------------------------------------------------ State
\* JsonFileStorage.retrieve_state().get(key); json.load raises on a file
\* that is not valid JSON, so this is only defined when state_file.ok.
get_state(file, key) ==
    IF key \in DOMAIN file.data THEN file.data[key] ELSE None

\* Mutant of set_state: the file is overwritten with the one key.
set_state_overwriting(file, key, value) ==
    [ok |-> TRUE, data |-> [k \in {key} |-> value]]

\* JsonFileStorage.save_state({key: value}): read, update, write back.
set_state(file, key, value) ==
    [ok |-> TRUE,
     data |-> [k \in (DOMAIN file.data) \cup {key} |->
                  IF k = key THEN value ELSE file.data[k]]]

\* A state file truncated by an interrupted or failed write.
Corrupt == [ok |-> FALSE, data |-> << >>]

\* Mutant of LastModified: an absent watermark stands for the time the
\* source was loaded, not for the beginning of time.
LastModifiedSinceLoad(current_state) ==
    IF current_state = None THEN 1 ELSE fromisoformat(current_state)

\* last_modified of the _get_* methods.
LastModified(current_state) ==
    IF current_state = None THEN DatetimeMin ELSE fromisoformat(current_state)

\* ---------------------------------------------------------- DataExtractor
\* max(row.modified for row in rows).isoformat()
MaxModified(rows) == isoformat(SeqMax([i \in 1..Len(rows) |-> rows[i].modified]))

Ids(rows) == {rows[i].id : i \in 1..Len(rows)}

\* Mutant of GetUpdatedGenres: an empty result resets the watermark.
GetUpdatedGenresResetting(file) ==
    LET current_state == get_state(file, "genres")
    IN  {IF genres = << >>
         THEN [model |-> "genres", new_state |-> None, data |-> << >>]
         ELSE [model |-> "genres", new_state |-> MaxModified(genres), data |-> genres]
         : genres \in get_updated_genres(LastModified(current_state))}

\* The possible results of DataExtractor._get_updated_genres().
GetUpdatedGenres(file) ==
    LET current_state == get_state(file, "genres")
    IN  {IF genres = << >>
         THEN [model |-> "genres", new_state |-> current_state, data |-> << >>]
         ELSE [model |-> "genres", new_state |-> MaxModified(genres), data |-> genres]
         : genres \in get_updated_genres(LastModified(current_state))}

\* Mutant of GetUpdatedPersons: a non-empty result does not move the
\* watermark.
GetUpdatedPersonsLagging(file) ==
    LET current_state == get_state(file, "persons")
    IN  {[model |-> "persons", new_state |-> current_state, data |-> persons]
         : persons \in get_updated_persons(LastModified(current_state))}

\* The possible results of DataExtractor._get_updated_persons().
GetUpdatedPersons(file) ==
    LET current_state == get_state(file, "persons")
    IN  {IF persons = << >>
         THEN [model |-> "persons", new_state |-> current_state, data |-> << >>]
         ELSE [model |-> "persons", new_state |-> MaxModified(persons), data |-> persons]
         : persons \in get_updated_persons(LastModified(current_state))}

\* Mutant of FwByPersons: without linked films the watermark stays.
FwByPersonsKeeping(current_state, persons) ==
    IF persons = << >>
    THEN {[model |-> "fw_persons", new_state |-> current_state, data |-> << >>]}
    ELSE UNION {
        IF film_works = << >>
        THEN {[model |-> "fw_persons", new_state |-> current_state,
               data |-> << >>]}
        ELSE {[model |-> "fw_persons", new_state |-> MaxModified(persons),
               data |-> full]
              : full \in get_updated_filmworks_by_id(Ids(film_works))}
        : film_works \in get_fw_by_updated_persons(Ids(persons))}

\* The batches _get_fw_by_updated_persons builds from one result of the
\* changed-persons query.
FwByPersons(current_state, persons) ==
    IF persons = << >>
    THEN {[model |-> "fw_persons", new_state |-> current_state, data |-> << >>]}
    ELSE UNION {
        IF film_works = << >>
        THEN {[model |-> "fw_persons", new_state |-> MaxModified(persons),
               data |-> << >>]}
        ELSE {[model |-> "fw_persons", new_state |-> MaxModified(persons),
               data |-> full]
              : full \in get_updated_filmworks_by_id(Ids(film_works))}
        : film_works \in get_fw_by_updated_persons(Ids(persons))}

\* The possible results of DataExtractor._get_fw_by_updated_persons().
GetFwByUpdatedPersons(file) ==
    LET current_state == get_state(file, "fw_persons")
    IN  UNION {FwByPersons(current_state, persons)
               : persons \in get_updated_persons(LastModified(current_state))}

\* The batches _get_fw_by_updated_genres builds from one result of the
\* changed-genres query.
FwByGenres(current_state, genres) ==
    IF genres = << >>
    THEN {[model |-> "fw_genres", new_state |-> current_state, data |-> << >>]}
    ELSE UNION {
        IF film_works = << >>
        THEN {[model |-> "fw_genres", new_state |-> MaxModified(genres),
               data |-> << >>]}
        ELSE {[model |-> "fw_genres", new_state |-> MaxModified(genres),
               data |-> full]
              : full \in get_updated_filmworks_by_id(Ids(film_works))}
        : film_works \in get_fw_by_updated_genres(Ids(genres))}

\* The possible results of DataExtractor._get_fw_by_updated_genres().
GetFwByUpdatedGenres(file) ==
    LET current_state == get_state(file, "fw_genres")
    IN  UNION {FwByGenres(current_state, genres)
               : genres \in get_updated_genres(LastModified(current_state))}

\* The possible results of DataExtractor._get_updated_filmworks().
GetUpdatedFilmworks(file) ==
    LET current_state == get_state(file, "filmworks")
    IN  {IF film_works = << >>
         THEN [model |-> "filmworks", new_state |-> current_state, data |-> << >>]
         ELSE [model |-> "filmworks", new_state |-> MaxModified(film_works),
               data |-> film_works]
         : film_works \in get_updated_filmworks_by_timestamp(LastModified(current_state))}

\* -------------------------------------------------------- DataTransformer
\* unique_films.setdefault(film.id, film) on an insertion-ordered dict.
SetDefault(unique_films, film) ==
    IF \E i \in 1..Len(unique_films) : unique_films[i].id = film.id
    THEN unique_films
    ELSE Append(unique_films, film)

RECURSIVE UniqueFilms(_, _)
UniqueFilms(unique_films, films) ==
    IF films = << >> THEN unique_films
    ELSE UniqueFilms(SetDefault(unique_films, Head(films)), Tail(films))

\* ', '.join(names)
RECURSIVE Join(_)
Join(names) ==
    IF Len(names) <= 1 THEN names
    ELSE <<Head(names), <<", ">>>> \o Join(Tail(names))

PersonData(pfw) == [id |-> pfw.person[1].id, name |-> pfw.person[1].full_name]

\* Mutant of GroupPersonsByRole: the writers are put with the actors.
GroupPersonsByRoleMixed(persons) ==
    LET loaded == SelectSeq(persons, LAMBDA pfw : pfw.person # << >>)
        of(roles) == SelectSeq(loaded, LAMBDA pfw : pfw.role \in roles)
        data(s) == [i \in 1..Len(s) |-> PersonData(s[i])]
    IN  <<data(of({"director"})), data(of({"actor", "writer"})), << >> >>

\* DataTransformer._group_persons_by_role: <<directors, actors, writers>>;
\* a link without a person is skipped, a link with another role is in no
\* list.
GroupPersonsByRole(persons) ==
    LET loaded == SelectSeq(persons, LAMBDA pfw : pfw.person # << >>)
        of(role) == SelectSeq(loaded, LAMBDA pfw : pfw.role = role)
        data(s) == [i \in 1..Len(s) |-> PersonData(s[i])]
    IN  <<data(of("director")), data(of("actor")), data(of("writer"))>>

\* Mutant of OrDefault: the value is passed on as it is.
OrDefaultNever(value, default) == value

\* Python's 'value or default' for a value that is None or a string.
OrDefault(value, default) ==
    IF value = None \/ value = EmptyString THEN default ELSE value

\* Mutant of GenreKept: a genre without a name is kept.
GenreKeptIfPresent(gfw) == gfw.genre # << >>

\* 'if gfw.genre and gfw.genre.name' of _transform_by_film.
GenreKept(gfw) == gfw.genre # << >> /\ gfw.genre[1].name # EmptyString

\* DataTransformer._transform_by_film
TransformByFilm(film) ==
    LET g == SelectSeq(film.genres, GenreKept)
        grouped == GroupPersonsByRole(film.persons)
        names(s) == Join([i \in 1..Len(s) |-> s[i].name])
    IN  [id |-> film.id,
         imdb_rating |-> film.rating,
         title |-> film.title,
         description |-> OrDefault(film.description, EmptyString),
         genres |-> [i \in 1..Len(g) |->
                        [id |-> g[i].genre[1].id, name |-> g[i].genre[1].name]],
         directors_names |-> names(grouped[1]),
         actors_names |-> names(grouped[2]),
         writers_names |-> names(grouped[3]),
         directors |-> grouped[1],
         actors |-> grouped[2],
         writers |-> grouped[3]]

\* DataTransformer.transform_data: <<films, genres, persons>> documents.
TransformData(data_films, data_genres, data_persons) ==
    LET unique_films ==
            UniqueFilms(<< >>, data_films[1] \o data_films[2] \o data_films[3])
    IN  << [i \in 1..Len(unique_films) |-> TransformByFilm(unique_films[i])],
           [i \in 1..Len(data_genres) |->
               [id |-> data_genres[i].id, name |-> data_genres[i].name]],
           [i \in 1..Len(data_persons) |->
               [id |-> data_persons[i].id, name |-> data_persons[i].full_name]] >>

\* transform_data as start_process calls it on the batches of a cycle.
DocsOf(rd) ==
    TransformData(<< rd["fw_persons"].data, rd["fw_genres"].data,
                     rd["filmworks"].data >>,
                  rd["genres"].data, rd["persons"].data)

\* ------------------------------------------------------------- DataLoader
\* Mutant of IndexDoc: the document is added under a new _id.
IndexDocAppending(store, doc) == store \cup {doc}

\* One 'index' action of the bulk request: insert or overwrite by _id.
IndexDoc(store, doc) == {d \in store : d.id # doc.id} \cup {doc}

\* helpers.bulk over the actions, all accepted.
RECURSIVE Bulk(_, _)
Bulk(store, docs) ==
    IF docs = << >> THEN store
    ELSE Bulk(IndexDoc(store, Head(docs)), Tail(docs))

\* Mutant of LoadByIndex: an empty list replaces the contents of the index.
LoadByIndexReplacing(store, data) ==
    IF Len(data) = 0 THEN {} ELSE Bulk(store, data)

\* DataLoader._load_by_index when the bulk request returns.
LoadByIndex(store, data) ==
    IF Len(data) = 0 THEN store ELSE Bulk(store, data)

\* ---------------------------------------------------------------- backoff
\* Largest number of attempts the retry wrapper makes of one call.
MaxAttempts == 2

\* Mutant of backoff: every exception is retried while attempts are left.
backoff_retrying_all(kind, failed) ==
    IF failed + 1 < MaxAttempts THEN "retry" ELSE "raise"

\* @backoff(): what the wrapper does with an exception of the given kind
\* raised by the call when `failed` earlier attempts of it have failed.
backoff(kind, failed) ==
    IF kind = "transient" /\ failed + 1 < MaxAttempts THEN "retry" ELSE "raise"

\* ================================================================ read API
\* settings.film_cache_expire_in_seconds, in the unit of clock (300 s).
FILM_CACHE_EXPIRE_IN_SECONDS == 3

\* Query(default=50, ge=1, le=100) of page[size], Query(default=1, ge=1) of
\* page[number].
PageSizeDefault == 50
PageSizeMin == 1
PageSizeMax == 100
PageNumberDefault == 1
PageNumberMin == 1

\* HTTPStatus.OK, NOT_FOUND, UNPROCESSABLE_ENTITY.
OK == 200
NOT_FOUND == 404
UNPROCESSABLE_ENTITY == 422

\* detail of the 404 of the list endpoints (films not found) and of the
\* details endpoint (film not found), transliterated.
FilmsNotFound == "Kinoproizvedeniya ne naideny"
FilmNotFound == "Kinoproizvedenie ne naideno"

\* An optional value is << >> (None, parameter not given) or <<v>>.
Given(param, default) == IF param = << >> THEN default ELSE param[1]

\* None, which json.dumps writes as null; a string s is <<s>>.
JsonNull == << >>

\* -------------------------------------------------------------- models
\* FilmShort(id=..., title=..., imdb_rating=...)
FilmShort(source) ==
    [id |-> source.id, title |-> source.title, imdb_rating |-> source.imdb_rating]

\* Film(**doc['_source']): the fields of the model, the others are ignored.
Film(source) ==
    [id |-> source.id, title |-> source.title,
     imdb_rating |-> source.imdb_rating, description |-> source.description,
     genres |-> source.genres, actors |-> source.actors,
     writers |-> source.writers, directors |-> source.directors]

\* model_dump_json(by_alias=False) / json.dumps of the dumped models.
model_dump_json(model) == <<"json", model>>

\* model_validate(json.loads(data))
model_validate(data) == data[2]

\* The response body of a model: serialize_by_alias turns id into uuid (and
\* the name of a person into full_name).
ByAlias(f) == [uuid |-> f.id, title |-> f.title, imdb_rating |-> f.imdb_rating]

PersonsByAlias(ps) == [i \in 1..Len(ps) |-> [uuid |-> ps[i].id, full_name |-> ps[i].name]]

FilmByAlias(f) ==
    [uuid |-> f.id, title |-> f.title, imdb_rating |-> f.imdb_rating,
     description |-> f.description,
     genres |-> [i \in 1..Len(f.genres) |->
                    [uuid |-> f.genres[i].id, name |-> f.genres[i].name]],
     actors |-> PersonsByAlias(f.actors),
     writers |-> PersonsByAlias(f.writers),
     directors |-> PersonsByAlias(f.directors)]

\* ---------------------------------------------------------------- Redis
\* redis.get(key) at time now: <<value>> of the entry that has not expired,
\* << >> when there is none.
RedisGet(c, now, key) ==
    LET live == {e \in c : e.key = key /\ e.expires > now}
    IN  IF live = {} THEN << >> ELSE << (CHOOSE e \in live : TRUE).value >>

\* redis.setex(key, seconds, value) / redis.set(key, value, ex) at time now.
RedisSetex(c, now, key, seconds, value) ==
    {e \in c : e.key # key} \cup
    {[key |-> key, value |-> value, expires |-> now + seconds]}

\* The entries Redis still holds at time now.
Expire(c, now) == {e \in c : e.expires > now}

\* -------------------------------------------------------- Elasticsearch
\* elastic.get(index='movies', id=film_id): <<doc['_source']>>, or << >>
\* for NotFoundError (no such document, or no such index).
EsGet(docs, film_id) ==
    LET found == {d \in docs : d.id = film_id}
    IN  IF found = {} THEN << >> ELSE << CHOOSE d \in found : TRUE >>

\* The hits in the order of 'sort': [{imdb_rating: {order: ...}}]: every
\* ordering that is monotone in imdb_rating.
SortByRating(S, sort_order) ==
    {s \in Perms(S) :
        \A i, j \in 1..Len(s) :
            i < j => IF sort_order = "asc"
                     THEN s[i].imdb_rating <= s[j].imdb_rating
                     ELSE s[i].imdb_rating >= s[j].imdb_rating}

\* 'from' and 'size' of the request body applied to the ordered hits.
Page(hits, body) ==
    SubSeq(hits, body.from + 1, Min(body.from + body.size, Len(hits)))

\* 'nested' term filter on genres.id.
HasGenre(d, genre) == \E i \in 1..Len(d.genres) : d.genres[i].id = genre

\* 'match' on title with operator 'and': the documents whose title has
\* every word of the query; an empty query matches nothing.
MatchesTitle(d, query) == query # "" /\ d.title = query

\* ---------------------------------------------------------- FilmService
\* Mutant of generate_base_body: the offset is one page too far.
generate_base_body_from_next_page(page_size, page_number) ==
    [from |-> page_number * page_size, size |-> page_size]

\* FilmService.__generate_base_body
generate_base_body(page_size, page_number) ==
    [from |-> (page_number - 1) * page_size, size |-> page_size]

\* Mutant of generate_cache_key: the page number is left out of the key.
generate_cache_key_without_page(page_size, page_number, sort_field, genre, sort_order, query) ==
    <<"films:", <<"genre", genre, "page_size", page_size, "query", query,
                  "sort_field", sort_field, "sort_order", sort_order>> >>

\* FilmService.__generate_cache_key: 'films:' and the md5 of the six
\* parameters dumped with sorted keys (sort_field, genre, sort_order and
\* query are None or a string); the digest is taken to have no collision
\* and is modelled by the dumped text.
generate_cache_key(page_size, page_number, sort_field, genre, sort_order, query) ==
    <<"films:", <<"genre", genre, "page_number", page_number,
                  "page_size", page_size, "query", query,
                  "sort_field", sort_field, "sort_order", sort_order>> >>

\* The Redis key of a film's details is the film id itself.
FilmKey(film_id) == << film_id >>

\* FilmService._get_film_from_cache: <<film>> or << >>; an exception of
\* Redis is logged and gives << >>.
get_film_from_cache(c, now, film_id, redis_up) ==
    IF ~redis_up THEN << >>
    ELSE LET data == RedisGet(c, now, FilmKey(film_id))
         IN  IF data = << >> THEN << >> ELSE << model_validate(data[1]) >>

\* Mutant of get_films_from_cache: without the except clause, what Redis
\* holds is used although the call failed.
get_films_from_cache_unguarded(c, now, cache_key, redis_up) ==
    LET cached_data == RedisGet(c, now, cache_key)
    IN  IF cached_data = << >> THEN << >>
        ELSE << model_validate(cached_data[1]) >>

\* FilmService._get_films_from_cache: <<films>> or << >>.
get_films_from_cache(c, now, cache_key, redis_up) ==
    IF ~redis_up THEN << >>
    ELSE LET cached_data == RedisGet(c, now, cache_key)
         IN  IF cached_data = << >> THEN << >>
             ELSE << model_validate(cached_data[1]) >>

\* FilmService._put_films_to_cache; an exception of Redis is logged.
put_films_to_cache(c, now, cache_key, films, redis_up) ==
    IF ~redis_up THEN c
    ELSE RedisSetex(c, now, cache_key, FILM_CACHE_EXPIRE_IN_SECONDS,
                    model_dump_json(films))

\* Mutant of put_film_to_cache: the film is not cached.
put_film_to_cache_skipping(c, now, film, redis_up) == c

\* FilmService._put_film_to_cache; an exception of Redis is logged.
put_film_to_cache(c, now, film, redis_up) ==
    IF ~redis_up THEN c
    ELSE RedisSetex(c, now, FilmKey(film.id), FILM_CACHE_EXPIRE_IN_SECONDS,
                    model_dump_json(film))

\* Mutant of get_film_from_elastic: an unknown id gives some film of the
\* index.
get_film_from_elastic_or_any(docs, film_id) ==
    LET doc == EsGet(docs, film_id)
    IN  IF doc # << >> THEN << Film(doc[1]) >>
        ELSE IF docs = {} THEN << >>
        ELSE << Film(CHOOSE d \in docs : TRUE) >>

\* FilmService._get_film_from_elastic: <<film>>, or << >> on NotFoundError.
get_film_from_elastic(docs, film_id) ==
    LET doc == EsGet(docs, film_id)
    IN  IF doc = << >> THEN << >> ELSE << Film(doc[1]) >>

\* FilmService._get_films_from_elastic: the possible lists of FilmShort;
\* any exception (no such index, transport error) is logged and gives [].
get_films_from_elastic(docs, sort_order, sort_field, genre, body, es_up) ==
    IF ~es_up THEN {<< >>}
    ELSE LET hits == IF genre # << >> /\ genre[1] # ""
                     THEN {d \in docs : HasGenre(d, genre[1])}
                     ELSE docs
         IN  {[i \in 1..Len(Page(s, body)) |-> FilmShort(Page(s, body)[i])]
              : s \in SortByRating(hits, sort_order)}

\* FilmService._get_films_from_elastic_by_title: the possible lists of
\* FilmShort, hits of equal score in any order; a request without query
\* is rejected by Elasticsearch, any exception gives [].
get_films_from_elastic_by_title(docs, query, body, es_up) ==
    IF ~es_up \/ query = << >> THEN {<< >>}
    ELSE LET hits == {d \in docs : MatchesTitle(d, query[1])}
         IN  {[i \in 1..Len(Page(s, body)) |-> FilmShort(Page(s, body)[i])]
              : s \in Perms(hits)}

\* Whether redis.get and redis.set / redis.setex return when they are
\* called (they raise otherwise); RedisUp: both return.
RedisStates == [get : BOOLEAN, put : BOOLEAN]

RedisUp == [get |-> TRUE, put |-> TRUE]

\* FilmService.get_film_by_id: the film returned (<<film>> or << >>),
\* whether it came from the cache, and the cache afterwards.
get_film_by_id(c, docs, now, film_id, redis_up) ==
    LET cached == get_film_from_cache(c, now, film_id, redis_up.get)
        film == get_film_from_elastic(docs, film_id)
    IN  IF cached # << >> THEN [film |-> cached, cache |-> c, cached |-> TRUE]
        ELSE IF film = << >> THEN [film |-> << >>, cache |-> c, cached |-> FALSE]
        ELSE [film |-> film, cached |-> FALSE,
              cache |-> put_film_to_cache(c, now, film[1], redis_up.put)]

\* Mutant of FilmsThroughCache: a cached list is returned also when it is
\* empty.
FilmsThroughCacheServingEmpty(c, now, cache_key, fetched, redis_up) ==
    LET cached_result == get_films_from_cache(c, now, cache_key, redis_up.get)
    IN  IF cached_result # << >>
        THEN {[films |-> cached_result[1], cache |-> c, cached |-> TRUE]}
        ELSE {[films |-> films, cached |-> FALSE,
               cache |-> put_films_to_cache(c, now, cache_key, films, redis_up.put)]
              : films \in fetched}

\* The part of get_films and get_films_by_search after the key is made:
\* the cached list when it is not empty, otherwise a list fetched from
\* Elasticsearch, which is put into the cache.
FilmsThroughCache(c, now, cache_key, fetched, redis_up) ==
    LET cached_result == get_films_from_cache(c, now, cache_key, redis_up.get)
    IN  IF cached_result # << >> /\ cached_result[1] # << >>
        THEN {[films |-> cached_result[1], cache |-> c, cached |-> TRUE]}
        ELSE {[films |-> films, cached |-> FALSE,
               cache |-> put_films_to_cache(c, now, cache_key, films, redis_up.put)]
              : films \in fetched}

\* FilmService.get_films: the possible results [films, cache].
get_films(c, docs, now, sort_field, genre, sort_order, page_size, page_number, redis_up, es_up) ==
    FilmsThroughCache(c, now,
        generate_cache_key(page_size, page_number, << sort_field >>, genre,
                           << sort_order >>, JsonNull),
        get_films_from_elastic(docs, sort_order, sort_field, genre,
                               generate_base_body(page_size, page_number), es_up),
        redis_up)

\* FilmService.get_films_by_search: the possible results [films, cache].
get_films_by_search(c, docs, now, query, page_size, page_number, redis_up, es_up) ==
    FilmsThroughCache(c, now,
        generate_cache_key(page_size, page_number, JsonNull, JsonNull,
                           JsonNull, query),
        get_films_from_elastic_by_title(docs, query,
                               generate_base_body(page_size, page_number), es_up),
        redis_up)

\* ------------------------------------------------------------ api/v1/film
\* The validation FastAPI makes of page[size] and page[number].
ValidPage(page_size, page_number) ==
    /\ page_size >= PageSizeMin
    /\ page_size <= PageSizeMax
    /\ page_number >= PageNumberMin

\* regex='^-?imdb_rating$'
ValidSort(sort) == sort \in {"imdb_rating", "-imdb_rating"}

\* The response FastAPI gives when a parameter is not valid.
Unprocessable(c) ==
    [status |-> UNPROCESSABLE_ENTITY, body |-> << >>, detail |-> "validation",
     cache |-> c, cached |-> FALSE]

\* The outcome of a list endpoint for the result r of the service: the
\* status, body and detail of the response, and the cache afterwards.
FilmsResponse(r) ==
    IF r.films = << >>
    THEN [status |-> NOT_FOUND, body |-> << >>, detail |-> FilmsNotFound,
          cache |-> r.cache, cached |-> r.cached]
    ELSE [status |-> OK,
          body |-> [i \in 1..Len(r.films) |-> ByAlias(r.films[i])],
          detail |-> "", cache |-> r.cache, cached |-> r.cached]

\* api.v1.film.get_films: the possible outcomes.
films_endpoint(c, docs, now, sort, genre, page_size, page_number, redis_up, es_up) ==
    LET s == Given(sort, "-imdb_rating")
        size == Given(page_size, PageSizeDefault)
        number == Given(page_number, PageNumberDefault)
        sort_order == IF s = "-imdb_rating" THEN "desc" ELSE "asc"
        sort_field == "imdb_rating"
    IN  IF ~(ValidSort(s) /\ ValidPage(size, number))
        THEN {Unprocessable(c)}
        ELSE {FilmsResponse(r)
              : r \in get_films(c, docs, now, sort_field, genre, sort_order,
                                size, number, redis_up, es_up)}

\* api.v1.film.get_films_by_search: the possible outcomes.
search_endpoint(c, docs, now, query, page_size, page_number, redis_up, es_up) ==
    LET size == Given(page_size, PageSizeDefault)
        number == Given(page_number, PageNumberDefault)
    IN  IF ~ValidPage(size, number)
        THEN {Unprocessable(c)}
        ELSE {FilmsResponse(r)
              : r \in get_films_by_search(c, docs, now, query, size, number,
                                          redis_up, es_up)}

\* api.v1.film.get_film_details: the outcome.
details_endpoint(c, docs, now, film_uuid, redis_up) ==
    LET r == get_film_by_id(c, docs, now, film_uuid, redis_up)
    IN  IF r.film = << >>
        THEN [status |-> NOT_FOUND, body |-> << >>, detail |-> FilmNotFound,
              cache |-> r.cache, cached |-> r.cached]
        ELSE [status |-> OK, body |-> << FilmByAlias(r.film[1]) >>,
              detail |-> "", cache |-> r.cache, cached |-> r.cached]

\* ------------------------------------------------------------------- Init
DirectKeys == {"filmworks", "genres", "persons"}

\* The previous cycle did not end in an exception of load_data.
NotRaised == [loads_ok |-> 0, ids |-> [k \in KeySet |-> {}]]

NotInterrupted ==
    [at |-> "none", step |-> 0, mid_write |-> FALSE,
     raw_data |-> << >>, start_state |-> [ok |-> TRUE, data |-> << >>]]

\* The read API has not been asked anything yet.
NoRequest ==
    [kind |-> "none", film_uuid |-> "", sort |-> << >>, genre |-> << >>,
     query |-> << >>, page_size |-> << >>, page_number |-> << >>]
NoResponse == [status |-> 0, body |-> << >>, detail |-> "", at |-> -1]

\* A freshly loaded source (every row carries the load's timestamp), the
\* state file as JsonFileStorage.__init__ creates it, empty indexes, an
\* empty cache, and the process not started yet.
Fresh ==
    /\ modified = [id \in Rows |-> 1]
    /\ state_file = [ok |-> TRUE, data |-> << >>]
    /\ es = [i \in Range(Indexes) |-> {}]
    /\ pc = "down"
    /\ step = 1
    /\ raw_data = << >>
    /\ transformed_data = << >>
    /\ loads_ok = 0
    /\ start_state = [ok |-> TRUE, data |-> << >>]
    /\ error = "none"
    /\ delivered = [k \in DirectKeys |-> {}]
    /\ updates = 0
    /\ faults = 0
    /\ interrupted = NotInterrupted
    /\ raised = NotRaised
    /\ attempt = 0
    /\ failure = "none"
    /\ cache = {}
    /\ clock = 0
    /\ request = NoRequest
    /\ response = NoResponse
    /\ served = {}

\* Both services are reachable.
Init ==
    /\ Fresh
    /\ outage = "none"

\* The relational source or the document store is unreachable when the
\* process is started.
OutageInit ==
    /\ Fresh
    /\ outage \in {"source", "store"}

\* -------------------------------------------------------- the environment
\* The latest timestamp the source has handed out.
Now == SeqMax([i \in 1..Len(RowSeq) |-> modified[RowSeq[i]]])

\* A writer of the source changes row id; the row's modified becomes now(),
\* which is the latest timestamp handed out or the next one.  The process
\* sees the source only through the queries of extract_data, so a change
\* made at any other time is the same as one made before the next query.
Update(id) ==
    /\ pc = "extract"
    /\ updates < MaxUpdates
    /\ \E t \in {Now, Now + 1} :
          /\ modified[id] < t
          /\ modified' = [modified EXCEPT ![id] = t]
    /\ updates' = updates + 1
    /\ delivered' = [k \in DirectKeys |-> delivered[k] \ {id}]
    /\ UNCHANGED << api_vars, raised, outage, state_file, es, pc, step, raw_data, transformed_data,
                    loads_ok, start_state, error, faults, interrupted,
                    attempt, failure >>

\* The unreachable service becomes reachable.
Recover ==
    /\ outage # "none"
    /\ outage' = "none"
    /\ UNCHANGED << api_vars, raised, modified, state_file, es, pc, step, raw_data,
                    transformed_data, loads_ok, start_state, error,
                    delivered, updates, faults, interrupted, attempt,
                    failure >>

\* ------------------------------------------------------------ extract_data
\* Mutant of Extracted: the watermark is saved as soon as the batch is
\* extracted, before anything is loaded.
ExtractedAndSaved(i, batches) ==
    /\ pc = "extract"
    /\ step = i
    /\ state_file.ok
    /\ outage # "source"
    /\ attempt' = 0
    /\ failure' = "none"
    /\ \E b \in batches :
          /\ raw_data' = raw_data @@ (Keys[i] :> b)
          /\ state_file' = set_state(state_file, Keys[i], b.new_state)
    /\ IF i < Len(Keys)
       THEN /\ step' = i + 1
            /\ pc' = pc
       ELSE /\ step' = 1
            /\ pc' = "transform"
    /\ UNCHANGED << api_vars, raised, outage, modified, es, transformed_data, loads_ok, start_state,
                    error, delivered, updates, faults, interrupted >>

\* One _get_* call of extract_data returns batch b for stream Keys[i].
Extracted(i, batches) ==
    /\ pc = "extract"
    /\ step = i
    /\ state_file.ok
    /\ outage # "source"
    /\ attempt' = 0
    /\ failure' = "none"
    /\ \E b \in batches : raw_data' = raw_data @@ (Keys[i] :> b)
    /\ IF i < Len(Keys)
       THEN /\ step' = i + 1
            /\ pc' = pc
       ELSE /\ step' = 1
            /\ pc' = "transform"
    /\ UNCHANGED << api_vars, raised, outage, modified, state_file, es, transformed_data,
                    loads_ok, start_state, error, delivered, updates, faults,
                    interrupted >>

ExtractFwByUpdatedPersons == Extracted(1, GetFwByUpdatedPersons(state_file))
ExtractFwByUpdatedGenres == Extracted(2, GetFwByUpdatedGenres(state_file))
ExtractUpdatedFilmworks == Extracted(3, GetUpdatedFilmworks(state_file))
ExtractUpdatedGenres == Extracted(4, GetUpdatedGenres(state_file))
ExtractUpdatedPersons == Extracted(5, GetUpdatedPersons(state_file))

\* Mutant of Raised: the exception leaves start_process.
RaisedOut(stage) ==
    /\ pc' = "down"
    /\ error' = stage

\* Mutant of Raised: the next cycle starts at once, without the sleep.
RaisedWithoutSleep(stage) ==
    /\ pc' = "extract"
    /\ error' = stage

\* The except clause of start_process: the cycle ends, the loop sleeps.
Raised(stage) ==
    /\ pc' = "sleep"
    /\ error' = stage

\* The environment makes a call fail.
Fault ==
    /\ faults < MaxFaults
    /\ faults' = faults + 1

\* The first failure of a call is a fault of the environment; while the
\* call is being retried it may fail again.
FirstFault == IF attempt = 0 THEN Fault ELSE faults' = faults

\* A _get_* call raises because state.json is not valid JSON (json.load in
\* retrieve_state, which no wrapper retries).
ExtractRaise ==
    /\ pc = "extract"
    /\ ~state_file.ok
    /\ Raised("extract")
    /\ UNCHANGED << api_vars, raised, outage, modified, state_file, es, step, raw_data,
                    transformed_data, loads_ok, start_state, delivered,
                    updates, faults, interrupted, attempt, failure >>

\* An attempt of a Repository query raises a transient error (timeout,
\* connection error; the only outcome while the source is unreachable) or
\* an error that is not transient; the wrapper sleeps and calls the query
\* again, or the exception leaves the wrapper, the _get_* method and
\* extract_data, and the batches fetched so far are dropped (raw_data is
\* not bound, the next iteration fetches every stream again).
QueryFails ==
    /\ pc = "extract"
    /\ state_file.ok
    /\ IF outage = "source" THEN faults' = faults ELSE FirstFault
    /\ \E kind \in (IF outage = "source" THEN {"transient"}
                     ELSE {"transient", "fatal"}) :
          /\ failure' = kind
          /\ IF backoff(kind, attempt) = "retry"
             THEN /\ attempt' = attempt + 1
                  /\ UNCHANGED << pc, error, step, raw_data >>
             ELSE /\ attempt' = attempt
                  /\ Raised("extract")
                  /\ step' = 1
                  /\ raw_data' = << >>
    /\ UNCHANGED << api_vars, raised, outage, modified, state_file, es, transformed_data,
                    loads_ok, start_state, delivered, updates, interrupted >>

\* ---------------------------------------------------------- transform_data
Transform ==
    /\ pc = "transform"
    /\ transformed_data' = DocsOf(raw_data)
    /\ pc' = "load"
    /\ step' = 1
    /\ interrupted' = NotInterrupted
    /\ raised' = NotRaised
    /\ UNCHANGED << api_vars, outage, modified, state_file, es, raw_data, loads_ok,
                    start_state, error, delivered, updates, faults,
                    attempt, failure >>

TransformRaise ==
    /\ pc = "transform"
    /\ Fault
    /\ Raised("transform")
    /\ interrupted' = NotInterrupted
    /\ raised' = NotRaised
    /\ UNCHANGED << api_vars, outage, modified, state_file, es, step, raw_data,
                    transformed_data, loads_ok, start_state, delivered,
                    updates, attempt, failure >>

\* --------------------------------------------------------------- load_data
\* Ids of the batch of stream k whose row has not changed since extraction.
CurrentIn(k) ==
    {raw_data[k].data[i].id : i \in
        {j \in 1..Len(raw_data[k].data) :
            raw_data[k].data[j].modified = modified[raw_data[k].data[j].id]}}

\* Where start_process goes when a _load_by_index call has returned.
AfterLoad ==
    IF step < Len(Indexes)
    THEN /\ step' = step + 1
         /\ pc' = pc
         /\ delivered' = delivered
    ELSE /\ step' = 1
         /\ pc' = "commit"
         /\ delivered' = [k \in DirectKeys |-> delivered[k] \cup CurrentIn(k)]

\* Mutant of Load: the watermark of the stream that fills an index is saved
\* as soon as the load of that index has returned.
LoadAndSave ==
    /\ pc = "load"
    /\ outage = "store" => Len(transformed_data[step]) = 0
    /\ attempt' = 0
    /\ failure' = "none"
    /\ es' = [es EXCEPT ![Indexes[step]] = LoadByIndex(@, transformed_data[step])]
    /\ loads_ok' = loads_ok + 1
    /\ AfterLoad
    /\ state_file' = set_state(state_file, Keys[step + 2],
                               raw_data[Keys[step + 2]].new_state)
    /\ UNCHANGED << api_vars, raised, outage, modified, raw_data, transformed_data, start_state, error,
                    updates, faults, interrupted >>

\* One _load_by_index call of load_data returns: there was nothing to
\* load, or helpers.bulk returned (raise_on_error=True: every document was
\* accepted).
Load ==
    /\ pc = "load"
    /\ outage = "store" => Len(transformed_data[step]) = 0
    /\ attempt' = 0
    /\ failure' = "none"
    /\ es' = [es EXCEPT ![Indexes[step]] = LoadByIndex(@, transformed_data[step])]
    /\ loads_ok' = loads_ok + 1
    /\ AfterLoad
    /\ UNCHANGED << api_vars, raised, outage, modified, state_file, raw_data, transformed_data,
                    start_state, error, updates, faults, interrupted >>

\* The documents of data at the positions in S, in order.
DocsAt(data, S) ==
    LET RECURSIVE pick(_)
        pick(i) == IF i > Len(data) THEN << >>
                   ELSE (IF i \in S THEN <<data[i]>> ELSE << >>) \o pick(i + 1)
    IN  pick(1)

\* Mutant of LoadRaise: the loader swallows the error of the bulk request,
\* so start_process goes on to the commits.
LoadRaiseSwallowed ==
    /\ pc' = "commit"
    /\ step' = 1
    /\ attempt' = 0
    /\ UNCHANGED << error, loads_ok, delivered >>

\* The exception of the bulk request leaves the wrapper, _load_by_index
\* and load_data.
LoadRaise ==
    /\ Raised("load")
    /\ attempt' = attempt
    /\ UNCHANGED << step, loads_ok, delivered >>

\* An attempt of the bulk request raises: a transient transport error (the
\* only outcome while the document store is unreachable), or BulkIndexError
\* because the store rejected a document (raise_on_error=True).  The
\* documents the store accepted before the error are indexed.  The wrapper
\* sleeps and sends the request again, or the exception leaves it.
BulkFails ==
    /\ pc = "load"
    /\ Len(transformed_data[step]) > 0
    /\ IF outage = "store" THEN faults' = faults ELSE FirstFault
    /\ \E kind \in (IF outage = "store" THEN {"transient"}
                     ELSE {"transient", "rejected"}) :
       \E S \in (IF outage = "store" THEN {{}}
                  ELSE SUBSET (1..Len(transformed_data[step]))) :
          /\ kind = "rejected" => S # 1..Len(transformed_data[step])
          /\ failure' = kind
          /\ es' = [es EXCEPT ![Indexes[step]] =
                       Bulk(@, DocsAt(transformed_data[step], S))]
          /\ IF backoff(kind, attempt) = "retry"
             THEN /\ attempt' = attempt + 1
                  /\ UNCHANGED << pc, step, error, loads_ok, delivered >>
             ELSE LoadRaise
    /\ UNCHANGED << api_vars, raised, outage, modified, state_file, raw_data,
                    transformed_data, start_state, updates, interrupted >>

\* ------------------------------------------------------ watermark commits
\* Mutant of Commit: the watermarks are written last stream first.
CommitLastFirst ==
    /\ pc = "commit"
    /\ state_file.ok
    /\ state_file' = set_state(state_file, Keys[Len(Keys) + 1 - step],
                               raw_data[Keys[Len(Keys) + 1 - step]].new_state)
    /\ IF step < Len(Keys)
       THEN /\ step' = step + 1
            /\ pc' = pc
       ELSE /\ step' = step
            /\ pc' = "sleep"
    /\ UNCHANGED << api_vars, raised, outage, modified, es, raw_data, transformed_data, loads_ok,
                    start_state, error, delivered, updates, faults,
                    interrupted, attempt, failure >>

\* One state.set_state call of start_process returns.
Commit ==
    /\ pc = "commit"
    /\ state_file.ok
    /\ state_file' = set_state(state_file, Keys[step], raw_data[Keys[step]].new_state)
    /\ IF step < Len(Keys)
       THEN /\ step' = step + 1
            /\ pc' = pc
       ELSE /\ step' = step
            /\ pc' = "sleep"
    /\ UNCHANGED << api_vars, raised, outage, modified, es, raw_data, transformed_data, loads_ok,
                    start_state, error, delivered, updates, faults,
                    interrupted, attempt, failure >>

\* set_state raises: reading the file failed (file untouched) or writing
\* it failed after open(..., 'w') truncated it.
CommitRaise ==
    /\ pc = "commit"
    /\ Fault
    /\ \E file \in {state_file, Corrupt} : state_file' = file
    /\ Raised("commit")
    /\ UNCHANGED << api_vars, raised, outage, modified, es, step, raw_data, transformed_data,
                    loads_ok, start_state, delivered, updates, interrupted,
                    attempt, failure >>

\* finally: sleep(self._etl_rate), then the next iteration of while True.
Sleep ==
    /\ pc = "sleep"
    /\ pc' = "extract"
    /\ step' = 1
    /\ raw_data' = << >>
    /\ transformed_data' = << >>
    /\ loads_ok' = 0
    /\ error' = "none"
    /\ start_state' = state_file
    /\ attempt' = 0
    /\ failure' = "none"
    /\ raised' = IF error = "load"
                 THEN [loads_ok |-> loads_ok,
                       ids |-> [k \in KeySet |-> Ids(raw_data[k].data)]]
                 ELSE NotRaised
    /\ UNCHANGED << api_vars, outage, modified, state_file, es, delivered, updates, faults,
                    interrupted >>

\* ------------------------------------------------------- kill and restart
\* The process is killed; a kill during a set_state call may hit the file
\* between its truncation and the end of json.dump.
Crash ==
    /\ pc # "down"
    /\ Fault
    /\ \E mid \in BOOLEAN :
          /\ mid => pc = "commit"
          /\ state_file' = IF mid THEN Corrupt ELSE state_file
          /\ interrupted' =
                IF pc = "commit"
                THEN [at |-> pc, step |-> step, mid_write |-> mid,
                      raw_data |-> raw_data, start_state |-> start_state]
                ELSE [NotInterrupted EXCEPT !.at = pc]
    /\ pc' = "down"
    /\ step' = 1
    /\ raw_data' = << >>
    /\ transformed_data' = << >>
    /\ loads_ok' = 0
    /\ error' = "none"
    /\ attempt' = 0
    /\ failure' = "none"
    /\ raised' = NotRaised
    /\ UNCHANGED << api_vars, outage, modified, es, start_state, delivered, updates >>

\* run_etl.main: ETLProcess().start_process() up to the first extract_data.
\* The constructors connect to nothing (the session and the Elasticsearch
\* client connect on first use); state.json exists, so
\* JsonFileStorage.__init__ leaves it alone.
Restart ==
    /\ pc = "down"
    /\ pc' = "extract"
    /\ step' = 1
    /\ start_state' = state_file
    /\ UNCHANGED << api_vars, raised, outage, modified, state_file, es, raw_data, transformed_data,
                    loads_ok, error, delivered, updates, faults,
                    interrupted, attempt, failure >>

\* -------------------------------------------------------------------- Spec
Next ==
    \/ \E id \in Rows : Update(id)
    \/ QueryFails
    \/ BulkFails
    \/ ExtractFwByUpdatedPersons
    \/ ExtractFwByUpdatedGenres
    \/ ExtractUpdatedFilmworks
    \/ ExtractUpdatedGenres
    \/ ExtractUpdatedPersons
    \/ ExtractRaise
    \/ Transform
    \/ TransformRaise
    \/ Load
    \/ Commit
    \/ CommitRaise
    \/ Sleep
    \/ Crash
    \/ Restart

Spec == Init /\ [][Next]_vars

\* The process started during an outage, which may end at any time.
OutageNext ==
    \/ Next
    \/ Recover

OutageSpec == OutageInit /\ [][OutageNext]_vars

\* ------------------------------------------------- the State object alone
\* The values start_process passes to set_state: None or a timestamp in
\* ISO format.
Values == {None} \cup {isoformat(t) : t \in 1..(MaxUpdates + 1)}

\* A call State.set_state(key, value) returns.
SetState ==
    /\ state_file.ok
    /\ \E key \in KeySet : \E value \in Values :
          state_file' = set_state(state_file, key, value)
    /\ UNCHANGED << api_vars, raised, modified, es, pc, step, raw_data,
                    transformed_data, loads_ok, start_state, error, delivered,
                    updates, faults, interrupted, attempt, failure, outage >>

\* Any sequence of set_state calls on the file JsonFileStorage.__init__
\* created.
StoreSpec == Init /\ [][SetState]_vars

\* What the fairness of the second specification covers: the steps
\* start_process takes by itself (a blocking call returns, a call to an
\* unreachable service or the read of an unreadable state file raises).
Progress ==
    \/ (QueryFails /\ outage = "source")
    \/ (BulkFails /\ outage = "store")
    \/ ExtractFwByUpdatedPersons
    \/ ExtractFwByUpdatedGenres
    \/ ExtractUpdatedFilmworks
    \/ ExtractUpdatedGenres
    \/ ExtractUpdatedPersons
    \/ ExtractRaise
    \/ Transform
    \/ Load
    \/ Commit
    \/ Sleep

FairSpec == Spec /\ WF_vars(Progress)

\* ------------------------------------------------------ an empty source
\* The rows that have no link to another row.
Unlinked ==
    {id \in Rows :
        /\ \A i \in 1..Len(PersonFilmWork) :
              id \notin {PersonFilmWork[i].person_id, PersonFilmWork[i].film_work_id}
        /\ \A i \in 1..Len(GenreFilmWork) :
              id \notin {GenreFilmWork[i].genre_id, GenreFilmWork[i].film_work_id}}

\* The first run of the process on a source whose tables are empty: a row
\* that has not been inserted has modified = DatetimeMin, so that no query
\* selects it.
EmptySourceInit ==
    /\ modified = [id \in Rows |-> DatetimeMin]
    /\ state_file = [ok |-> TRUE, data |-> << >>]
    /\ es = [i \in Range(Indexes) |-> {}]
    /\ pc = "down"
    /\ step = 1
    /\ raw_data = << >>
    /\ transformed_data = << >>
    /\ loads_ok = 0
    /\ start_state = [ok |-> TRUE, data |-> << >>]
    /\ error = "none"
    /\ delivered = [k \in DirectKeys |-> {}]
    /\ updates = 0
    /\ faults = 0
    /\ interrupted = NotInterrupted
    /\ raised = NotRaised
    /\ attempt = 0
    /\ failure = "none"
    /\ outage = "none"
    /\ cache = {}
    /\ clock = 0
    /\ request = NoRequest
    /\ response = NoResponse
    /\ served = {}

\* The process on that source; the rows inserted while it runs are rows
\* without links.
EmptySourceNext ==
    \/ \E id \in Unlinked : Update(id)
    \/ QueryFails
    \/ BulkFails
    \/ ExtractFwByUpdatedPersons
    \/ ExtractFwByUpdatedGenres
    \/ ExtractUpdatedFilmworks
    \/ ExtractUpdatedGenres
    \/ ExtractUpdatedPersons
    \/ ExtractRaise
    \/ Transform
    \/ TransformRaise
    \/ Load
    \/ Commit
    \/ CommitRaise
    \/ Sleep
    \/ Crash
    \/ Restart

EmptySourceSpec == EmptySourceInit /\ [][EmptySourceNext]_vars

\* ------------------------------------------------- transform_data alone
\* Largest number of genre links of a film given to transform_data.
MaxLinks == 3

\* The genre of a link: none, a genre without a name, or a named genre.
LinkedGenres ==
    {<< >>,
     << [id |-> "g2", name |-> EmptyString, modified |-> 1] >>,
     << [id |-> "g1", name |-> <<"g1", 1>>, modified |-> 1] >>,
     << [id |-> "g3", name |-> <<"g3", 1>>, modified |-> 1] >>}

\* The genre links a film may have.
GenreLinks ==
    UNION {[1..n -> {[genre |-> g] : g \in LinkedGenres}] : n \in 0..MaxLinks}

\* The person of a link: none, or a person.
LinkedPersons ==
    {<< >>,
     << [id |-> "p1", full_name |-> <<"p1", 1>>, modified |-> 1] >>,
     << [id |-> "p2", full_name |-> <<"p2", 1>>, modified |-> 1] >>}

\* person_film_work.role is any string.
LinkRoles == {"director", "actor", "writer", "producer"}

\* The person links a film may have.
PersonLinks ==
    UNION {[1..n -> {[role |-> r, person |-> p] : r \in LinkRoles, p \in LinkedPersons}] : n \in 0..MaxLinks}

\* The descriptions a film may have: none, the empty string, a text.
Descriptions == {None, EmptyString, <<"description", 1>>}

\* The films given to transform_data: film f1 with any of these genre
\* links, or person links, or descriptions and ratings.
TransformFilms(film) ==
    {[film EXCEPT !.genres = links] : links \in GenreLinks}
    \cup {[film EXCEPT !.persons = links] : links \in PersonLinks}
    \cup {[film EXCEPT !.description = d, !.rating = r] : d \in Descriptions, r \in {<< >>, << 8 >>}}

\* extract_data has returned a filmworks batch of one of these films, and
\* nothing else.
TransformInit ==
    /\ modified = [id \in Rows |-> 1]
    /\ state_file = [ok |-> TRUE, data |-> << >>]
    /\ es = [i \in Range(Indexes) |-> {}]
    /\ pc = "transform"
    /\ step = 1
    /\ transformed_data = << >>
    /\ loads_ok = 0
    /\ start_state = [ok |-> TRUE, data |-> << >>]
    /\ error = "none"
    /\ delivered = [k \in DirectKeys |-> {}]
    /\ updates = 0
    /\ faults = 0
    /\ interrupted = NotInterrupted
    /\ raised = NotRaised
    /\ attempt = 0
    /\ failure = "none"
    /\ outage = "none"
    /\ cache = {}
    /\ clock = 0
    /\ request = NoRequest
    /\ response = NoResponse
    /\ served = {}
    /\ \E film \in TransformFilms(FilmAggregate("f1")) :
          raw_data =
            [k \in KeySet |->
                IF k = "filmworks"
                THEN [model |-> k, new_state |-> isoformat(1), data |-> << film >>]
                ELSE [model |-> k, new_state |-> None, data |-> << >>]]

\* transform_data applied to the batches of one cycle.
TransformSpec == TransformInit /\ [][Transform]_vars

\* ---------------------------------------------------- read API: requests
\* Largest value of clock.
MaxClock == 4

\* The documents of the movies index the requests are made against (the
\* data the functional tests write): id, rating, genre, title.
ApiFilmIds == {"f1", "f2", "f3"}

ApiRating(id) == IF id = "f1" THEN 1 ELSE 2

ApiDoc(id) ==
    [id |-> id,
     imdb_rating |-> ApiRating(id),
     genres |-> IF id = "f3" THEN << [id |-> "g2", name |-> "Sci-Fi"] >>
                ELSE << [id |-> "g1", name |-> "Action"] >>,
     title |-> IF id = "f3" THEN "moon" ELSE "star",
     description |-> "Description",
     directors_names |-> "Director",
     actors_names |-> "Actor 1",
     writers_names |-> "",
     directors |-> << [id |-> "p1", name |-> "Director"] >>,
     actors |-> << [id |-> "p2", name |-> "Actor 1"] >>,
     writers |-> << >>]

\* The contents es_write_data gives the index.
ApiIndexContents == {{ApiDoc(id) : id \in S} : S \in {ApiFilmIds, {"f1"}}}

\* The parameters the requests are made with; << >> is a parameter that is
\* not given.
FilmUuids == {"f1", "f3", "f0"}
Sorts == {<< >>, <<"imdb_rating">>, <<"invalid_field">>}
GenreParams == {<< >>, <<"g1">>}
PageSizes == {<< >>, <<1>>, <<101>>}
PageNumbers == {<< >>, <<0>>, <<2>>}
Queries == {<<"star">>, <<"potato">>}

\* The responses of served that are still less than a cache TTL old at
\* time now.
Recent(log, now) ==
    {s \in log : now < s.response.at + FILM_CACHE_EXPIRE_IN_SECONDS}

\* A request that arrived at time clock is answered: it takes one unit of
\* time, and Redis drops the entries that expire in it.
Answered(req, outcome) ==
    /\ clock < MaxClock
    /\ clock' = clock + 1
    /\ request' = req
    /\ response' = [status |-> outcome.status, body |-> outcome.body,
                    detail |-> outcome.detail, at |-> clock]
    /\ cache' = Expire(outcome.cache, clock + 1)
    /\ served' = Recent(IF outcome.status = OK /\ ~outcome.cached
                        THEN {s \in served : s.request # req}
                             \cup {[request |-> req, response |-> response']}
                        ELSE served, clock + 1)
    /\ UNCHANGED << es, etl_vars >>

\* GET /api/v1/films/{film_uuid}
GetFilmDetails ==
    \E film_uuid \in FilmUuids :
        Answered([kind |-> "details", film_uuid |-> film_uuid, sort |-> << >>,
                  genre |-> << >>, query |-> << >>, page_size |-> << >>,
                  page_number |-> << >>],
                 details_endpoint(cache, es["movies"], clock, film_uuid, RedisUp))

\* GET /api/v1/films/
GetFilms ==
    \E sort \in Sorts, genre \in GenreParams, page_size \in PageSizes,
       page_number \in PageNumbers :
        \E outcome \in films_endpoint(cache, es["movies"], clock, sort, genre,
                                      page_size, page_number, RedisUp, TRUE) :
            Answered([kind |-> "films", film_uuid |-> "", sort |-> sort,
                      genre |-> genre, query |-> << >>,
                      page_size |-> page_size, page_number |-> page_number],
                     outcome)

\* GET /api/v1/films/search
GetFilmsBySearch ==
    \E query \in Queries, page_size \in PageSizes, page_number \in PageNumbers :
        \E outcome \in search_endpoint(cache, es["movies"], clock, query,
                                       page_size, page_number, RedisUp, TRUE) :
            Answered([kind |-> "search", film_uuid |-> "", sort |-> << >>,
                      genre |-> << >>, query |-> query,
                      page_size |-> page_size, page_number |-> page_number],
                     outcome)

\* The movies index is deleted (es_delete_index of the functional tests).
DeleteIndex ==
    /\ es["movies"] # {}
    /\ es' = [es EXCEPT !["movies"] = {}]
    /\ UNCHANGED << api_vars, etl_vars >>

\* The movies index is created anew with documents (es_write_data).
WriteData ==
    /\ \E docs \in ApiIndexContents :
          /\ es["movies"] # docs
          /\ es' = [es EXCEPT !["movies"] = docs]
    /\ UNCHANGED << api_vars, etl_vars >>

\* Time passes without a request.
Tick ==
    /\ clock < MaxClock
    /\ clock' = clock + 1
    /\ cache' = Expire(cache, clock + 1)
    /\ served' = Recent(served, clock + 1)
    /\ UNCHANGED << es, request, response, etl_vars >>

ApiNext ==
    \/ GetFilmDetails
    \/ GetFilms
    \/ GetFilmsBySearch
    \/ DeleteIndex
    \/ WriteData
    \/ Tick

\* The read API with Redis and Elasticsearch reachable, against an index
\* that is written and deleted while it serves requests.
ApiSpec == Init /\ [][ApiNext]_vars

\* ------------------------------------- read API: Redis or the search fails
\* GET /api/v1/films/{film_uuid} while the calls of Redis may raise.
GetFilmDetailsDegraded ==
    \E film_uuid \in FilmUuids, redis_up \in RedisStates :
        Answered([kind |-> "details", film_uuid |-> film_uuid, sort |-> << >>,
                  genre |-> << >>, query |-> << >>, page_size |-> << >>,
                  page_number |-> << >>],
                 details_endpoint(cache, es["movies"], clock, film_uuid, redis_up))

\* GET /api/v1/films/ (default sort and page) while the calls of Redis and
\* the search of Elasticsearch may raise.
GetFilmsDegraded ==
    \E genre \in GenreParams, redis_up \in RedisStates, es_up \in BOOLEAN :
        \E outcome \in films_endpoint(cache, es["movies"], clock, << >>, genre,
                                      << >>, << >>, redis_up, es_up) :
            Answered([kind |-> "films", film_uuid |-> "", sort |-> << >>,
                      genre |-> genre, query |-> << >>,
                      page_size |-> << >>, page_number |-> << >>],
                     outcome)

\* GET /api/v1/films/search (default page) while the calls of Redis and
\* the search of Elasticsearch may raise.
GetFilmsBySearchDegraded ==
    \E query \in Queries, redis_up \in RedisStates, es_up \in BOOLEAN :
        \E outcome \in search_endpoint(cache, es["movies"], clock, query,
                                       << >>, << >>, redis_up, es_up) :
            Answered([kind |-> "search", film_uuid |-> "", sort |-> << >>,
                      genre |-> << >>, query |-> query,
                      page_size |-> << >>, page_number |-> << >>],
                     outcome)

DegradedNext ==
    \/ GetFilmDetailsDegraded
    \/ GetFilmsDegraded
    \/ GetFilmsBySearchDegraded
    \/ DeleteIndex
    \/ WriteData
    \/ Tick

\* The read API while single calls of Redis and of the Elasticsearch
\* search raise.
DegradedSpec == Init /\ [][DegradedNext]_vars

\* ================================================================ claims
Running == pc \in {"extract", "transform", "load", "commit"}
Idle == pc = "sleep"

\* The watermark of stream key as a timestamp (DatetimeMin when absent).
Watermark(file, key) == LastModified(get_state(file, key))

\* The kill hit start_process after all loads and before commit number n.
KilledBeforeCommit(n) ==
    /\ interrupted.at = "commit"
    /\ interrupted.step = n
    /\ ~interrupted.mid_write

\* C1: in every cycle, no watermark of the state file is written before
\* all three load calls of that cycle have returned.
C1_CommitOnlyAfterLoads ==
    [][state_file' # state_file => (pc = "commit" /\ loads_ok = Len(Indexes))]_vars

\* A watermark has been written in a cycle whose three loads returned.
C1_Witness ==
    /\ pc = "commit"
    /\ step = 2
    /\ loads_ok = Len(Indexes)
    /\ get_state(state_file, "fw_persons") = isoformat(1)
    /\ get_state(start_state, "fw_persons") = None

\* C2: when extraction, transformation or a load raises, the state file at
\* the end of the cycle is the one the cycle started with, and the next
\* cycle starts from that same state file.
C2_FailedCycleKeepsWatermarks ==
    /\ [](error \in {"extract", "transform", "load"} => state_file = start_state)
    /\ [][(error \in {"extract", "transform", "load"} /\ pc' = "extract")
            => (state_file' = start_state /\ start_state' = start_state)]_vars

\* A load raised after batches with new watermarks had been extracted.
C2_Witness ==
    /\ pc = "sleep"
    /\ error = "load"
    /\ raw_data["persons"].new_state # get_state(state_file, "persons")

\* Watermark values in the order of time; an absent watermark is the
\* beginning of time.
NotSmaller(new, old) ==
    \/ old = None
    \/ new # None /\ fromisoformat(new) >= fromisoformat(old)

\* C3: for each of the five streams the stored watermark never decreases:
\* a value written to the state file is never smaller than the value it
\* replaces.
C3_WatermarkNonDecreasing ==
    [][(state_file.ok /\ state_file'.ok) =>
          \A k \in KeySet :
             NotSmaller(get_state(state_file', k), get_state(state_file, k))]_vars

\* A watermark that advanced twice: first to 1, later to 2.
C3_Witness ==
    /\ state_file.ok
    /\ \E k \in KeySet :
          /\ get_state(start_state, k) = isoformat(1)
          /\ get_state(state_file, k) = isoformat(2)

\* The table a direct stream polls.
Table(k) ==
    CASE k = "persons" -> Persons
      [] k = "genres" -> Genres
      [] k = "filmworks" -> Films

\* C4: no missed updates on the direct streams: whenever the committed
\* watermark of persons, genres or filmworks is w, every row of that table
\* with modified at most w (the initial watermark is the beginning of
\* time) has been in a batch of the stream in a cycle whose three loads
\* returned.
C4_NoMissedUpdates ==
    state_file.ok =>
        \A k \in DirectKeys : \A id \in Table(k) :
            (/\ get_state(state_file, k) # None
             /\ modified[id] <= Watermark(state_file, k))
            => id \in delivered[k]

\* The films joined to a person / a genre through the link tables.
FilmsOfPerson(p) ==
    {PersonFilmWork[i].film_work_id : i \in
        {j \in 1..Len(PersonFilmWork) : PersonFilmWork[j].person_id = p}}
FilmsOfGenre(g) ==
    {GenreFilmWork[i].film_work_id : i \in
        {j \in 1..Len(GenreFilmWork) : GenreFilmWork[j].genre_id = g}}

\* The movies index holds film f with person p / genre g as the source has
\* it now.
MovieHasPerson(f, p) ==
    \E d \in es["movies"] :
        /\ d.id = f
        /\ \E i \in 1..Len(d.directors \o d.actors \o d.writers) :
              (d.directors \o d.actors \o d.writers)[i] =
                  [id |-> p, name |-> Content(p)]
MovieHasGenre(f, g) ==
    \E d \in es["movies"] :
        /\ d.id = f
        /\ \E i \in 1..Len(d.genres) : d.genres[i] = [id |-> g, name |-> Content(g)]

\* C5: cross-entity impact is complete: right after fw_persons (resp.
\* fw_genres) is committed at w in a cycle, every film linked to a person
\* (resp. genre) whose modified lies between the watermark the cycle
\* started with (exclusive) and w (inclusive) is in the movies index with
\* that person (resp. genre) as the source has it.
C5_CrossEntityImpactComplete ==
    (pc = "commit" /\ state_file.ok /\ start_state.ok) =>
        /\ step >= 2 =>
              \A p \in Persons :
                 (/\ Watermark(start_state, "fw_persons") < modified[p]
                  /\ modified[p] <= Watermark(state_file, "fw_persons"))
                 => \A f \in FilmsOfPerson(p) : MovieHasPerson(f, p)
        /\ step >= 3 =>
              \A g \in Genres :
                 (/\ Watermark(start_state, "fw_genres") < modified[g]
                  /\ modified[g] <= Watermark(state_file, "fw_genres"))
                 => \A f \in FilmsOfGenre(g) : MovieHasGenre(f, g)

\* The rows stream k would select now: for a direct stream the rows of its
\* table above its watermark, for an indirect stream the persons / genres
\* above its watermark.
PendingRows(k) ==
    CASE k = "fw_persons" -> {p \in Persons : modified[p] > Watermark(state_file, k)}
      [] k = "fw_genres" -> {g \in Genres : modified[g] > Watermark(state_file, k)}
      [] OTHER -> {id \in Table(k) : modified[id] > Watermark(state_file, k)}

\* The record ids stream k could deliver now.
PendingIds(k) ==
    CASE k = "fw_persons" -> UNION {FilmsOfPerson(p) : p \in PendingRows(k)}
      [] k = "fw_genres" -> UNION {FilmsOfGenre(g) : g \in PendingRows(k)}
      [] OTHER -> PendingRows(k)

\* Nothing stream k could deliver now is cut off by the page size.
FitsPage(k) ==
    /\ Cardinality(PendingRows(k)) <= L
    /\ Cardinality(PendingIds(k)) <= L

\* Loading the documents of the batches rd again leaves the store as it is.
RedeliveryChangesNothing(rd) ==
    \A i \in 1..Len(Indexes) :
        LoadByIndex(es[Indexes[i]], DocsOf(rd)[i]) = es[Indexes[i]]

\* C6 as stated: after a kill between the last load and the first commit,
\* the batch the next cycle extracts contains, for every stream, the
\* records of the interrupted cycle's batch, and re-delivering the
\* interrupted cycle's documents leaves the document store unchanged.
C6_NextBatchIsSuperset ==
    KilledBeforeCommit(1) =>
        /\ pc = "down" => RedeliveryChangesNothing(interrupted.raw_data)
        /\ pc = "transform" =>
              \A k \in KeySet :
                  Ids(interrupted.raw_data[k].data) \subseteq Ids(raw_data[k].data)

\* C6 as amended: after such a kill no watermark has moved, every record of
\* the interrupted batches is still pending for its stream when the next
\* cycle has extracted, and the next batch of a stream contains all of them
\* when what is pending for the stream fits into one page of L rows;
\* re-delivering the interrupted cycle's documents leaves the document
\* store unchanged.
C6_NextBatchCoversWithinPage ==
    KilledBeforeCommit(1) =>
        /\ pc = "down" =>
              /\ state_file = interrupted.start_state
              /\ RedeliveryChangesNothing(interrupted.raw_data)
        /\ pc = "transform" =>
              /\ state_file = interrupted.start_state
              /\ \A k \in KeySet :
                    /\ Ids(interrupted.raw_data[k].data) \subseteq PendingIds(k)
                    /\ FitsPage(k) =>
                          Ids(interrupted.raw_data[k].data) \subseteq Ids(raw_data[k].data)

\* The cycle after the kill has extracted a batch that contains a
\* non-empty batch of the interrupted cycle.
C6_Witness ==
    /\ KilledBeforeCommit(1)
    /\ pc = "transform"
    /\ \E k \in KeySet :
          /\ FitsPage(k)
          /\ Ids(interrupted.raw_data[k].data) # {}
          /\ Ids(interrupted.raw_data[k].data) \subseteq Ids(raw_data[k].data)

C8_NeverStopsOnError ==
    /\ [](error # "none" => Idle)
    /\ [](Running => <>(Idle \/ pc = "down"))
    /\ [](Idle => <>(pc = "extract" \/ pc = "down"))

\* A commit raised and left the state file unreadable, and start_process
\* is running a later cycle.
C8_Witness ==
    /\ pc = "extract"
    /\ ~state_file.ok
    /\ interrupted.at = "none"

FilmBatches == << raw_data["fw_persons"].data, raw_data["fw_genres"].data,
                 raw_data["filmworks"].data >>

\* The aggregate of film id that extract_data fetched last in this cycle.
LatestFetched(id) ==
    LET all == FilmBatches[1] \o FilmBatches[2] \o FilmBatches[3]
        last == CHOOSE i \in 1..Len(all) :
                    /\ all[i].id = id
                    /\ \A j \in 1..Len(all) : all[j].id = id => j <= i
    IN  all[last]

\* C10: dedup law: transform_data emits exactly one movies document per
\* film id of the three film batches of the cycle, and that document is
\* the transformation of the latest aggregate fetched for the film.
C10_DedupKeepsLatest ==
    pc = "load" =>
        LET docs == transformed_data[1]
            ids == Ids(FilmBatches[1]) \cup Ids(FilmBatches[2]) \cup Ids(FilmBatches[3])
        IN  /\ \A i, j \in 1..Len(docs) : i # j => docs[i].id # docs[j].id
            /\ Ids(docs) = ids
            /\ \A i \in 1..Len(docs) :
                  docs[i] = TransformByFilm(LatestFetched(docs[i].id))

\* The store after data has been loaded into it n times in a row.
RECURSIVE Replay(_, _, _)
Replay(store, data, n) ==
    IF n = 0 THEN store ELSE Replay(LoadByIndex(store, data), data, n - 1)

OneDocPerId(store) == \A d1, d2 \in store : d1.id = d2.id => d1 = d2

\* Loading the documents docs into index number i two or more times in a
\* row leaves the index as loading them once does, with one document per
\* id and every document of docs in it.
ReplayIsOneLoad(docs, i) ==
    LET once == Replay(es[Indexes[i]], docs, 1)
    IN  /\ OneDocPerId(once)
        /\ Range(docs) \subseteq once
        /\ \A n \in 2..(MaxReplays + 1) : Replay(es[Indexes[i]], docs, n) = once

\* C11: delivery is idempotent: after every bulk request, failed or not,
\* no index holds two documents with one id; delivering the transformed
\* documents into the index that load_data is about to write any number of
\* times has the effect of one delivery; and once load_data has returned,
\* transforming the batches of the cycle and delivering the documents
\* again leaves every index unchanged.
C11_DeliveryIdempotent ==
    /\ (pc \in {"load", "commit"} \/ error = "load") =>
          \A i \in 1..Len(Indexes) : OneDocPerId(es[Indexes[i]])
    /\ pc = "load" => ReplayIsOneLoad(transformed_data[step], step)
    /\ (pc = "commit" /\ step = 1) =>
          \A i \in 1..Len(Indexes) :
              /\ ReplayIsOneLoad(DocsOf(raw_data)[i], i)
              /\ Replay(es[Indexes[i]], DocsOf(raw_data)[i], 1) = es[Indexes[i]]

\* The movies documents about to be loaded are in the index already (a
\* repeated delivery), one of them in place of an older version.
C11_Witness ==
    /\ pc = "load"
    /\ step = 1
    /\ transformed_data[1] # << >>
    /\ Range(transformed_data[1]) \subseteq es["movies"]
    /\ \E d \in es["movies"] : d.title[2] = 2

\* The largest modified among the rows of a non-empty sequence.
LargestModified(rows) ==
    CHOOSE t \in {rows[i].modified : i \in 1..Len(rows)} :
        \A j \in 1..Len(rows) : rows[j].modified <= t

\* The batch keeps the watermark it was selected above when it is empty
\* and carries the largest modified of its records otherwise.
WatermarkFromRecords(b, previous) ==
    /\ b.data = << >> => b.new_state = previous
    /\ b.data # << >> => b.new_state = isoformat(LargestModified(b.data))

\* The batch keeps the watermark when no driving row (changed person or
\* genre) was selected and carries their largest modified otherwise.
WatermarkFromDriving(b, previous, driving) ==
    /\ driving = << >> => (b.data = << >> /\ b.new_state = previous)
    /\ driving # << >> => b.new_state = isoformat(LargestModified(driving))

\* C12 as stated: every batch extract_data returns, for each of the five
\* streams, keeps the previous watermark when its records are empty and
\* carries the largest modified of its records otherwise.
C12_BatchInvariant ==
    pc = "transform" =>
        \A k \in KeySet : WatermarkFromRecords(raw_data[k], get_state(state_file, k))

\* C12 as amended: that holds of the batches of filmworks, genres and
\* persons; a batch that _get_fw_by_updated_persons
\* (_get_fw_by_updated_genres) can return keeps the previous watermark
\* when the changed-persons (changed-genres) query selected nothing, and
\* otherwise carries the largest modified of the selected persons
\* (genres), whether or not it has records.
C12_BatchInvariantByDrivingRows ==
    /\ pc = "transform" =>
          \A k \in DirectKeys :
              WatermarkFromRecords(raw_data[k], get_state(state_file, k))
    /\ (pc = "extract" /\ step = 1 /\ state_file.ok) =>
          \A persons \in get_updated_persons(Watermark(state_file, "fw_persons")) :
              \A b \in FwByPersons(get_state(state_file, "fw_persons"), persons) :
                  WatermarkFromDriving(b, get_state(state_file, "fw_persons"), persons)
    /\ (pc = "extract" /\ step = 2 /\ state_file.ok) =>
          \A genres \in get_updated_genres(Watermark(state_file, "fw_genres")) :
              \A b \in FwByGenres(get_state(state_file, "fw_genres"), genres) :
                  WatermarkFromDriving(b, get_state(state_file, "fw_genres"), genres)

\* extract_data returned an empty genres batch, a non-empty persons batch
\* and a fw_persons batch without records whose watermark moved.
C12_Witness ==
    /\ pc = "transform"
    /\ raw_data["genres"].data = << >>
    /\ raw_data["persons"].data # << >>
    /\ raw_data["fw_persons"].data = << >>
    /\ raw_data["fw_persons"].new_state # get_state(state_file, "fw_persons")

\* A result of the changed-genres query with one genre that no film is
\* linked to, changed at time t.
UnlinkedGenre(t) == << [id |-> "g0", name |-> <<"g0", t>>, modified |-> t] >>

\* C13: whenever _get_fw_by_updated_persons runs: when the changed-persons
\* query returns persons and the linked-films query returns no film, the
\* fw_persons batch has no records
\* and its new watermark is the largest modified of those persons; the
\* same holds of fw_genres for changed genres without a linked film.
C13_NoLinkedFilmsStillAdvances ==
    /\ (pc = "extract" /\ step = 1 /\ state_file.ok) =>
          \A persons \in get_updated_persons(Watermark(state_file, "fw_persons")) :
              (persons # << >> /\ get_fw_by_updated_persons(Ids(persons)) = {<< >>})
              => FwByPersons(get_state(state_file, "fw_persons"), persons) =
                    {[model |-> "fw_persons", data |-> << >>,
                      new_state |-> isoformat(LargestModified(persons))]}
    /\ (pc = "extract" /\ step = 2 /\ state_file.ok) =>
          \A t \in 1..(Now + 1) :
              /\ get_fw_by_updated_genres(Ids(UnlinkedGenre(t))) = {<< >>}
              /\ FwByGenres(get_state(state_file, "fw_genres"), UnlinkedGenre(t)) =
                    {[model |-> "fw_genres", data |-> << >>,
                      new_state |-> isoformat(t)]}

\* extract_data returned a fw_persons batch without records for a changed
\* person that has no film; the batch moves the watermark to that
\* person's modified.
C13_Witness ==
    /\ pc = "transform"
    /\ raw_data["fw_persons"].data = << >>
    /\ raw_data["fw_persons"].new_state = isoformat(modified["p2"])
    /\ Watermark(state_file, "fw_persons") < modified["p2"]
    /\ FilmsOfPerson("p2") = {}

\* C14: first run: when _get_updated_genres runs while the genres
\* watermark is absent, the changed-genres query excludes no genre by its
\* modified (it returns min(L, number of
\* genres) current rows), and when a cycle that started without a genres
\* watermark has committed, the stored genres watermark is the largest
\* modified among the genres of its batch.
C14_FirstRunGenres ==
    /\ (/\ pc = "extract"
        /\ step = 4
        /\ state_file.ok
        /\ get_state(state_file, "genres") = None) =>
          \A b \in GetUpdatedGenres(state_file) :
              /\ Ids(b.data) \subseteq Genres
              /\ Cardinality(Ids(b.data)) = Min(L, Cardinality(Genres))
              /\ \A i \in 1..Len(b.data) : b.data[i] = GenreRow(b.data[i].id)
    /\ (/\ pc = "sleep"
        /\ error = "none"
        /\ start_state.ok
        /\ get_state(start_state, "genres") = None) =>
          /\ raw_data["genres"].data # << >>
          /\ Len(raw_data["genres"].data) <= L
          /\ state_file.ok
          /\ get_state(state_file, "genres") =
                isoformat(LargestModified(raw_data["genres"].data))

\* The first cycle committed a genres watermark later than the load of
\* the source: the genre changed before the first query.
C14_Witness ==
    /\ pc = "sleep"
    /\ error = "none"
    /\ get_state(start_state, "genres") = None
    /\ get_state(state_file, "genres") = isoformat(2)

\* C15: a set_state call changes only the entry of its key: after it, the
\* key holds the value set and get_state returns for every other key what
\* it returned before, for every key and value and for every file a
\* sequence of set_state calls on the five keys produces; and every call
\* leaves all keys but one as they were.
C15_SetStateFrame ==
    /\ [](\A key \in KeySet : \A value \in Values :
            LET after == set_state(state_file, key, value)
            IN  /\ after.ok
                /\ get_state(after, key) = value
                /\ \A other \in KeySet \ {key} :
                      get_state(after, other) = get_state(state_file, other))
    /\ [][\E key \in KeySet : \A other \in KeySet \ {key} :
              get_state(state_file', other) = get_state(state_file, other)]_vars

\* All five keys have been set, to different values.
C15_Witness ==
    /\ DOMAIN state_file.data = KeySet
    /\ get_state(state_file, "fw_persons") = isoformat(2)
    /\ get_state(state_file, "fw_genres") = None
    /\ get_state(state_file, "persons") = isoformat(1)

\* C16: when the process comes up with a state file that is not readable
\* (here: truncated by a kill during a write), the cycle does not fail in
\* extraction: every watermark counts as absent and the cycle extracts
\* from the beginning of time.
C16_UnreadableStoreResyncs ==
    (interrupted.mid_write /\ ~start_state.ok) =>
        /\ error # "extract"
        /\ pc = "sleep" => state_file.ok

\* C17: when the bulk request reports rejected documents without a
\* transport error, the loader returns without raising: the cycle is not
\* aborted and goes on with the next load or the commits.
C17_RejectedDocsDoNotAbort ==
    failure = "rejected" => (error = "none" /\ pc \in {"load", "commit"})

\* A step in which an attempt of the bulk request fails.
BulkAttemptFails ==
    /\ pc = "load"
    /\ pc' # "down"
    /\ loads_ok' = loads_ok

\* C18: a bulk request that keeps failing with a transport error is
\* attempted at most MaxAttempts times: every failed attempt but the last
\* is followed by one more attempt and raises the count of failed
\* attempts, which stays below MaxAttempts, so the retry loop ends; the
\* failure of the last attempt ends the cycle with the error of load_data,
\* and the state file is then the one the cycle started with and stays so
\* until the next cycle.
C18_BulkRetriesBounded ==
    /\ [](attempt < MaxAttempts)
    /\ [][(BulkAttemptFails /\ failure' = "transient") =>
             IF attempt + 1 < MaxAttempts
             THEN pc' = "load" /\ attempt' = attempt + 1 /\ error' = "none"
             ELSE pc' = "sleep" /\ error' = "load"]_vars
    /\ [](error = "load" => (pc = "sleep" /\ state_file = start_state))
    /\ [][error = "load" => state_file' = state_file]_vars

\* The last attempt of a bulk request failed with a transport error in a
\* cycle whose persons batch had a new watermark.
C18_Witness ==
    /\ pc = "sleep"
    /\ error = "load"
    /\ failure = "transient"
    /\ attempt + 1 = MaxAttempts
    /\ raw_data["persons"].new_state # get_state(state_file, "persons")

\* A step in which an attempt of a Repository query fails.
QueryAttemptFails ==
    /\ pc = "extract"
    /\ state_file.ok
    /\ pc' # "down"
    /\ modified' = modified
    /\ raw_data' = raw_data

\* C19: the retry wrapper of the Repository queries and of the bulk
\* request retries only transient failures: an attempt that fails with an
\* error that is not transient is the last one, its error ends the cycle
\* at once and the count of retries does not grow; an attempt that is
\* followed by another one failed with a transient error.
C19_OnlyTransientRetried ==
    [][(QueryAttemptFails \/ BulkAttemptFails) =>
          /\ failure' \in {"transient", "fatal", "rejected"}
          /\ failure' # "transient" =>
                /\ pc' = "sleep"
                /\ error' = (IF pc = "extract" THEN "extract" ELSE "load")
                /\ attempt' = attempt
          /\ pc' = pc => (failure' = "transient" /\ attempt' = attempt + 1)]_vars

\* A query failed on its first attempt with an error that is not
\* transient, and the cycle ended.
C19_Witness ==
    /\ pc = "sleep"
    /\ error = "extract"
    /\ failure = "fatal"
    /\ attempt = 0

\* C20: when the relational source or the document store cannot be
\* reached at startup, the process ends with a fatal error before the
\* cycle loop: while the outage lasts it is never inside the loop.
C20_UnreachableAtStartupIsFatal ==
    outage # "none" => pc = "down"

\* The table whose modified column stream k polls.
Polled(k) ==
    CASE k = "fw_persons" -> Persons
      [] k = "fw_genres" -> Genres
      [] OTHER -> Table(k)

\* The batches extract_data would return now, one set per stream.
BatchesNow ==
    << GetFwByUpdatedPersons(state_file), GetFwByUpdatedGenres(state_file),
       GetUpdatedFilmworks(state_file), GetUpdatedGenres(state_file),
       GetUpdatedPersons(state_file) >>

\* Every stream's batch is empty and every watermark is the largest
\* modified of the table the stream polls.
Drained ==
    /\ state_file.ok
    /\ \A i \in 1..Len(Keys) :
          /\ \A b \in BatchesNow[i] : b.data = << >>
          /\ \A id \in Polled(Keys[i]) :
                modified[id] <= Watermark(state_file, Keys[i])
          /\ \E id \in Polled(Keys[i]) :
                modified[id] = Watermark(state_file, Keys[i])

\* A step in which the source does not change, no call fails or is
\* retried and the process is not killed.
Calm ==
    /\ modified' = modified
    /\ error' = "none"
    /\ attempt' <= attempt
    /\ pc' # "down"

\* C21: drain by re-polling: if from some point on the source does not
\* change and nothing fails, then after finitely many cycles every
\* stream's batch is empty and every stream's watermark is the largest
\* modified of the table it polls, and it stays so (or the process was
\* never started); the pages of L rows follow from the watermarks alone.
C21_DrainByRepolling ==
    <>[][Calm]_vars => <>[](Drained \/ pc = "down")

\* The streams are drained after a cycle that found more than L rows of
\* one table changed since the previous commit.
C21_Witness ==
    /\ pc = "sleep"
    /\ error = "none"
    /\ Drained
    /\ \E k \in DirectKeys :
          Cardinality({id \in Table(k) :
                          modified[id] > Watermark(start_state, k)}) > L

\* A step in which the read API answers a request.
RequestStep == response'.at = clock /\ clock' = clock + 1

\* C22: read-through cache for film details: after a details request was
\* answered 200 with a film found in the document store, a repetition of
\* the request less than a cache TTL later is answered 200 with the same
\* film, whatever has happened to the movies index in between.
C22_FilmDetailsServedFromCache ==
    [][\A s \in served :
          (/\ RequestStep
           /\ s.request.kind = "details"
           /\ request' = s.request
           /\ clock < s.response.at + FILM_CACHE_EXPIRE_IN_SECONDS)
          => /\ response'.status = OK
             /\ response'.body = s.response.body
             /\ response'.body[1].uuid = request'.film_uuid]_vars

\* A details request was answered 200 from the cache after the index the
\* film was found in had been deleted.
C22_Witness ==
    /\ request.kind = "details"
    /\ response.status = OK
    /\ es["movies"] = {}
    /\ \E s \in served : s.request = request /\ s.response.at < response.at

\* ------------------------------------------------------------------- C23
ListKinds == {"films", "search"}

\* What the list endpoint of request req answers from the document store
\* alone (nothing cached): the possible outcomes.
FromStore(req, docs) ==
    IF req.kind = "films"
    THEN films_endpoint({}, docs, 0, req.sort, req.genre, req.page_size,
                        req.page_number, RedisUp, TRUE)
    ELSE search_endpoint({}, docs, 0, req.query, req.page_size,
                         req.page_number, RedisUp, TRUE)

\* C23: if a list or search request returned 200 with n films, an identical
\* request (same sort, genre, query, page size and page number) made within
\* the cache TTL returns 200 with n films (the same films), whatever has
\* happened to the movies index in between; and requests that differ in one
\* of these parameters never share a cache entry: a request that no
\* identical request preceded within the TTL is answered with what the
\* document store holds for its own parameters.
C23_FilmListsServedFromCache ==
    [][(RequestStep /\ request'.kind \in ListKinds) =>
          /\ \A s \in served :
                (request' = s.request
                 /\ clock < s.response.at + FILM_CACHE_EXPIRE_IN_SECONDS)
                => /\ response'.status = OK
                   /\ Len(response'.body) = Len(s.response.body)
                   /\ response'.body = s.response.body
          /\ (\A s \in served : request' # s.request)
                => \E o \in FromStore(request', es["movies"]) :
                      /\ response'.status = o.status
                      /\ response'.body = o.body]_vars

\* A list request was answered 200 from the cache after the index had been
\* deleted.
C23_Witness ==
    /\ request.kind \in ListKinds
    /\ response.status = OK
    /\ es["movies"] = {}
    /\ \E s \in served : s.request = request /\ s.response.at < response.at

\* ------------------------------------------------------------------- C24
\* The request passes FastAPI's validation.
ValidRequest(req) ==
    /\ ValidPage(Given(req.page_size, PageSizeDefault),
                 Given(req.page_number, PageNumberDefault))
    /\ req.kind = "films" => ValidSort(Given(req.sort, "-imdb_rating"))

\* The films of docs that match the parameters of list request req.
Matching(req, docs) ==
    IF req.kind = "search"
    THEN {d \in docs : req.query # << >> /\ MatchesTitle(d, req.query[1])}
    ELSE IF req.genre = << >> THEN docs
    ELSE {d \in docs : HasGenre(d, req.genre[1])}

\* min(s, max(0, N - (p-1)*s)) for the page of req and the N films of docs
\* that match it.
PageCount(req, docs) ==
    LET s == Given(req.page_size, PageSizeDefault)
        p == Given(req.page_number, PageNumberDefault)
        N == Cardinality(Matching(req, docs))
        rest == N - (p - 1) * s
    IN  Min(s, IF rest > 0 THEN rest ELSE 0)

\* The response of this step has the number of films the pagination of the
\* movies index gives, and is a 404 when that number is 0.
Paginated ==
    LET n == PageCount(request', es["movies"])
    IN  IF n = 0
        THEN /\ response'.status = NOT_FOUND
             /\ response'.detail = FilmsNotFound
        ELSE /\ response'.status = OK
             /\ Len(response'.body) = n

Unknown(film_id) ==
    /\ RedisGet(cache, clock, FilmKey(film_id)) = << >>
    /\ EsGet(es["movies"], film_id) = << >>

\* C25: a film-details request for an id that is in neither the cache nor
\* the document store returns 404 'film not found' and writes nothing to
\* the cache; the same request repeated, also after the index has been
\* deleted, returns the same 404 as long as the index has no such film.
C25_UnknownFilmNotFound ==
    [][(RequestStep /\ request'.kind = "details") =>
          /\ Unknown(request'.film_uuid)
                => /\ response'.status = NOT_FOUND
                   /\ response'.detail = FilmNotFound
                   /\ response'.body = << >>
                   /\ cache' = Expire(cache, clock')
          /\ (/\ request = request'
              /\ response.status = NOT_FOUND
              /\ EsGet(es["movies"], request'.film_uuid) = << >>)
                => /\ response'.status = response.status
                   /\ response'.detail = response.detail
                   /\ response'.body = response.body]_vars

\* A details request for an id the index does not have was answered 404
\* while the index had other films and the cache other entries.
C25_Witness ==
    /\ request.kind = "details"
    /\ response.status = NOT_FOUND
    /\ response.detail = FilmNotFound
    /\ es["movies"] # {}
    /\ EsGet(es["movies"], request.film_uuid) = << >>
    /\ cache # {}
    /\ \A e \in cache : e.key # FilmKey(request.film_uuid)

\* ------------------------------------------------------------------- C26
\* A step of the process (not a change of the source, a kill or the end
\* of an outage) while load_data is at a collection with nothing to load.
EmptyLoadStep ==
    /\ pc = "load"
    /\ Len(transformed_data[step]) = 0
    /\ pc' # "down"
    /\ UNCHANGED << modified, updates, outage >>

\* C26: loading an empty document list into a collection is a no-op:
\* _load_by_index with empty data issues no bulk request (no attempt is
\* made, so none can fail), raises nothing and leaves the document store
\* unchanged, and load_data goes on to the remaining collections, or
\* returns to start_process after the last one.
C26_EmptyLoadIsNoOp ==
    [][EmptyLoadStep =>
          /\ es' = es
          /\ error' = error
          /\ failure' = "none" /\ attempt' = 0 /\ faults' = faults
          /\ loads_ok' = loads_ok + 1
          /\ IF step < Len(Indexes)
             THEN pc' = "load" /\ step' = step + 1
             ELSE pc' = "commit" /\ step' = 1]_vars

\* load_data returned after an empty list for one collection, a later
\* collection got its documents.
C26_Witness ==
    /\ pc = "commit"
    /\ loads_ok = Len(Indexes)
    /\ \E i, j \in 1..Len(Indexes) :
          /\ i < j
          /\ Len(transformed_data[i]) = 0
          /\ Len(transformed_data[j]) > 0
          /\ \A n \in 1..Len(transformed_data[j]) :
                transformed_data[j][n] \in es[Indexes[j]]
    /\ es["movies"] # {}

\* ------------------------------------------------------------------- C27
\* C27: extract_data never writes to the watermark store: the state file is
\* unchanged by every step of extraction, transformation and loading, and
\* it changes only in a set_state call that start_process makes after all
\* loads of the cycle have returned (a call that returns, raises or is
\* killed while it writes).
C27_OnlyCommitsWriteWatermarks ==
    [][/\ pc \in {"extract", "transform", "load"} => state_file' = state_file
       /\ state_file' # state_file
            => /\ pc = "commit"
               /\ loads_ok = Len(Indexes)
               /\ state_file' \in
                     {set_state(state_file, Keys[step],
                                raw_data[Keys[step]].new_state), Corrupt}]_vars

\* All loads of a cycle have returned, a batch carries a new watermark, and
\* the state file is still as the cycle found it.
C27_Witness ==
    /\ pc = "commit"
    /\ step = 1
    /\ loads_ok = Len(Indexes)
    /\ state_file = start_state
    /\ state_file.ok
    /\ \E k \in DOMAIN raw_data :
          raw_data[k].new_state # get_state(state_file, k)

\* ------------------------------------------------------------------- C28
\* The order in which extract_data fetches the streams.
StreamOrder == <<"fw_persons", "fw_genres", "filmworks", "genres", "persons">>

\* The streams fetched before position i of StreamOrder.
FetchedBefore(i) == {StreamOrder[j] : j \in 1..(i - 1)}

\* The stages of a cycle come one after the other: each stage begins when
\* the stage before it has finished, a cycle ends in the sleep after its
\* last commit or after a failure, and only the sleep (or the start of the
\* process) begins a cycle.
StagesInSequence ==
    /\ (pc' = "extract" /\ pc # "extract")
          => /\ pc \in {"sleep", "down"}
             /\ step' = 1 /\ raw_data' = << >> /\ transformed_data' = << >>
    /\ (pc' = "transform" /\ pc # "transform")
          => pc = "extract" /\ DOMAIN raw_data' = FetchedBefore(6)
    /\ (pc' = "load" /\ pc # "load") => pc = "transform"
    /\ (pc' = "commit" /\ pc # "commit")
          => pc = "load" /\ loads_ok' = Len(Indexes)
    /\ (pc' = "sleep" /\ pc # "sleep")
          => \/ pc = "commit" /\ step = Len(StreamOrder) /\ error' = "none"
             \/ pc \in {"extract", "transform", "load", "commit"}
                /\ error' # "none"

\* The streams are fetched one at a time in the order of StreamOrder.
StreamsInOrder ==
    /\ pc = "extract" => DOMAIN raw_data = FetchedBefore(step)
    /\ (raw_data' # raw_data /\ raw_data' # << >>)
          => /\ pc = "extract"
             /\ DOMAIN raw_data' = DOMAIN raw_data \cup {StreamOrder[step]}
             /\ \A k \in DOMAIN raw_data : raw_data'[k] = raw_data[k]

\* C28: cycles never overlap and are internally sequential: a new cycle
\* starts only after the extract, transform, load and commit of the
\* previous one have finished or failed and the sleep has elapsed, and
\* within a cycle the five streams are always extracted in the order
\* fw_by_person, fw_by_genre, filmworks, genres, persons.
C28_CyclesSequential == [][StagesInSequence /\ StreamsInOrder]_vars

\* A second cycle is extracting after a first one that committed.
C28_Witness ==
    /\ pc = "extract"
    /\ step = 3
    /\ DOMAIN raw_data = {"fw_persons", "fw_genres"}
    /\ state_file.ok
    /\ state_file.data # << >>

\* ------------------------------------------------------------------- C29
\* The streams whose batches are films for the movies index.
FilmStreams == {"fw_persons", "fw_genres", "filmworks"}

\* C29: backpressure bound: in every cycle each of the five batches holds
\* at most L records, so the movies load of a cycle receives at most 3*L
\* documents (no more than the three film batches hold together).
C29_BackpressureBound ==
    /\ \A k \in DOMAIN raw_data : Len(raw_data[k].data) <= L
    /\ (pc \in {"load", "commit"} /\ transformed_data # << >>)
          => /\ Len(transformed_data[1])
                   <= Len(raw_data["fw_persons"].data)
                      + Len(raw_data["fw_genres"].data)
                      + Len(raw_data["filmworks"].data)
             /\ Len(transformed_data[1]) <= 3 * L
             /\ Len(transformed_data[2]) <= L
             /\ Len(transformed_data[3]) <= L

\* A cycle whose film batches are full pages of different films while more
\* films than a page holds were pending in a stream: the movies load gets
\* more than L documents.
C29_Witness ==
    /\ pc = "load"
    /\ step = 1
    /\ Len(transformed_data[1]) > L
    /\ \E k \in FilmStreams : Len(raw_data[k].data) = L
    /\ Cardinality({f \in Films : modified[f] > Watermark(start_state, "filmworks")}) > L

\* ------------------------------------------------------------------- C30
\* The positions of the genre links of film whose genre is present and has
\* a non-empty name.
NamedLinks(film) ==
    {i \in 1..Len(film.genres) :
        /\ film.genres[i].genre # << >>
        /\ film.genres[i].genre[1].name # EmptyString}

\* The n-th of them.
NthNamedLink(film, n) ==
    CHOOSE i \in NamedLinks(film) :
        Cardinality({j \in NamedLinks(film) : j < i}) = n - 1

\* The genres list of doc has exactly the named links of film, in link
\* order.
GenresOfNamedLinks(doc, film) ==
    /\ Len(doc.genres) = Cardinality(NamedLinks(film))
    /\ \A n \in 1..Len(doc.genres) :
          LET genre == film.genres[NthNamedLink(film, n)].genre[1]
          IN  doc.genres[n] = [id |-> genre.id, name |-> genre.name]

\* C30: for every film, the genres list of the transformed document has
\* exactly the film's genre links whose genre is present and has a
\* non-empty name, in link order; a film with two genre links of which one
\* has an empty name (and the other a name) gives a list of one entry.
C30_GenresOfTransformedFilm ==
    pc = "load" =>
        \A i \in 1..Len(raw_data["filmworks"].data) :
            LET film == raw_data["filmworks"].data[i]
                doc == transformed_data[1][i]
            IN  /\ doc.id = film.id
                /\ GenresOfNamedLinks(doc, film)
                /\ (/\ Len(film.genres) = 2
                    /\ Cardinality(NamedLinks(film)) = 1
                    /\ \E j \in 1..2 :
                          /\ film.genres[j].genre # << >>
                          /\ film.genres[j].genre[1].name = EmptyString)
                      => Len(doc.genres) = 1

\* A film with a named genre and a genre without a name was transformed
\* into a document with one genre.
C30_Witness ==
    /\ pc = "load"
    /\ LET film == raw_data["filmworks"].data[1]
       IN  /\ Len(film.genres) = 2
           /\ film.genres[1].genre # << >>
           /\ film.genres[1].genre[1].name = EmptyString
           /\ film.genres[2].genre # << >>
           /\ film.genres[2].genre[1].name # EmptyString
    /\ Len(transformed_data[1][1].genres) = 1

\* ------------------------------------------------------------------- C31
\* The roles that have a list in the document.
ListedRoles == {"director", "actor", "writer"}

\* The list of role in doc, and the names field of role.
RoleList(doc, role) ==
    IF role = "director" THEN doc.directors
    ELSE IF role = "actor" THEN doc.actors ELSE doc.writers

RoleNames(doc, role) ==
    IF role = "director" THEN doc.directors_names
    ELSE IF role = "actor" THEN doc.actors_names ELSE doc.writers_names

\* The positions of the person links of film that have a person and the
\* given role, and the n-th of them.
LinksOfRole(film, role) ==
    {i \in 1..Len(film.persons) :
        film.persons[i].person # << >> /\ film.persons[i].role = role}

NthLinkOfRole(film, role, n) ==
    CHOOSE i \in LinksOfRole(film, role) :
        Cardinality({j \in LinksOfRole(film, role) : j < i}) = n - 1

\* names is the names of list joined with ', ': name, separator, name, ...
\* and the empty string for an empty list.
JoinedNames(names, list) ==
    /\ list = << >> => names = EmptyString
    /\ list # << >> => Len(names) = 2 * Len(list) - 1
    /\ \A n \in 1..Len(list) : names[2 * n - 1] = list[n].name
    /\ \A n \in 1..(Len(list) - 1) : names[2 * n] = <<", ">>

\* C31: for every film, each person-role link (of a person that is
\* loaded) with role director, actor or writer appears in exactly the list
\* of its role of the transformed document, in link order, a link of
\* another role in none; directors_names, actors_names and writers_names
\* equal the names of the corresponding list joined with ', ' and are the
\* empty string when that list is empty.
C31_PersonsGroupedByRole ==
    pc = "load" =>
        \A i \in 1..Len(raw_data["filmworks"].data) :
            LET film == raw_data["filmworks"].data[i]
                doc == transformed_data[1][i]
            IN  \A role \in ListedRoles :
                    /\ Len(RoleList(doc, role)) = Cardinality(LinksOfRole(film, role))
                    /\ \A n \in 1..Len(RoleList(doc, role)) :
                          LET person == film.persons[NthLinkOfRole(film, role, n)].person[1]
                          IN  RoleList(doc, role)[n] = [id |-> person.id, name |-> person.full_name]
                    /\ JoinedNames(RoleNames(doc, role), RoleList(doc, role))

\* A film with two actors, a writer, a producer and no director was
\* transformed.
C31_Witness ==
    /\ pc = "load"
    /\ LET film == raw_data["filmworks"].data[1]
           doc == transformed_data[1][1]
       IN  /\ Cardinality(LinksOfRole(film, "actor")) = 2
           /\ Len(doc.actors_names) = 3
           /\ doc.directors_names = EmptyString
           /\ \E n \in 1..Len(film.persons) : film.persons[n].role = "producer"

\* ------------------------------------------------------------------- C32
\* C32: the description field of every transformed film document is a
\* string, never null or absent: a film without description gives the
\* empty string, any other film its description.
C32_DescriptionNeverNull ==
    pc = "load" =>
        \A i \in 1..Len(raw_data["filmworks"].data) :
            LET film == raw_data["filmworks"].data[i]
                doc == transformed_data[1][i]
            IN  /\ "description" \in DOMAIN doc
                /\ doc.description # None
                /\ film.description = None => doc.description = EmptyString
                /\ film.description # None => doc.description = film.description

\* A film without description was transformed.
C32_Witness ==
    /\ pc = "load"
    /\ raw_data["filmworks"].data[1].description = None
    /\ transformed_data[1][1].description = EmptyString

\* ------------------------------------------------------------------- C33
\* The index the documents of stream k go to.
IndexOf(k) ==
    IF k = "genres" THEN "genres" ELSE IF k = "persons" THEN "persons" ELSE "movies"

\* The document store has accepted a document for every record of the
\* batch of stream k and every document of the cycle.
AllAccepted(k) ==
    /\ \A n \in 1..Len(raw_data[k].data) :
          \E d \in es[IndexOf(k)] : d.id = raw_data[k].data[n].id
    /\ \A i \in 1..Len(Indexes) :
          \A n \in 1..Len(transformed_data[i]) :
             \E d \in es[Indexes[i]] : d.id = transformed_data[i][n].id

\* C33: no watermark is ever committed in a cycle in which the bulk upsert
\* rejected a document: the rejection makes the bulk call raise, the cycle
\* ends with the watermarks it started with, and a watermark is written
\* only when the document store has accepted a document for every record
\* of the batch it is taken from.
C33_NoCommitAfterRejection ==
    [][/\ failure' = "rejected"
            => /\ pc' = "sleep"
               /\ error' = "load"
               /\ state_file' = start_state'
       /\ failure = "rejected" => state_file' = state_file
       /\ state_file' # state_file
            => /\ failure = "none"
               /\ error = "none"
               /\ AllAccepted(Keys[step])]_vars

\* The store rejected a document of a cycle whose batches carry a new
\* watermark; the cycle is over and the state file is as it found it.
C33_Witness ==
    /\ pc = "sleep"
    /\ failure = "rejected"
    /\ error = "load"
    /\ state_file = start_state
    /\ \E n \in 1..Len(transformed_data[step]) :
          transformed_data[step][n] \notin es[Indexes[step]]
    /\ \E k \in DOMAIN raw_data :
          raw_data[k].new_state # get_state(state_file, k)

\* ------------------------------------------------------------------- C34
\* file has the new watermark of the first n streams of StreamOrder taken
\* from the batches rd, and for the others what file start had.
CommittedPrefix(file, n, rd, start) ==
    \A j \in 1..Len(StreamOrder) :
        get_state(file, StreamOrder[j]) =
            IF j <= n THEN rd[StreamOrder[j]].new_state
            ELSE get_state(start, StreamOrder[j])

\* A write that leaves a readable state file changes the watermark of one
\* stream, the next of StreamOrder.
OneAtATime ==
    (state_file' # state_file /\ state_file'.ok)
        => /\ pc = "commit"
           /\ CommittedPrefix(state_file', step, raw_data, start_state)
           /\ \A j \in 1..Len(StreamOrder) :
                 j # step => get_state(state_file', StreamOrder[j])
                             = get_state(state_file, StreamOrder[j])
           /\ (pc' = "commit" /\ step' = step + 1)
              \/ (pc' = "sleep" /\ step = Len(StreamOrder))

\* Where the commits of a cycle have got to, the streams committed in it
\* are the first step - 1 of StreamOrder: between two set_state calls, when
\* a set_state call has raised without touching the file, and when the
\* process was killed between two calls.
PrefixCommitted ==
    /\ (pc = "commit" /\ state_file.ok)
          => CommittedPrefix(state_file, step - 1, raw_data, start_state)
    /\ (pc = "sleep" /\ error = "commit" /\ state_file.ok)
          => CommittedPrefix(state_file, step - 1, raw_data, start_state)
    /\ (pc = "down" /\ interrupted.at = "commit" /\ state_file.ok)
          => CommittedPrefix(state_file, interrupted.step - 1,
                             interrupted.raw_data, interrupted.start_state)

\* C34: within a cycle the five watermarks are written one at a time in
\* the order fw_by_person, fw_by_genre, filmworks, genres, persons; at any
\* interruption point (a kill or a failing write) the streams already
\* committed are a prefix of this order, never an arbitrary subset.
C34_CommitsInOrder == [][OneAtATime /\ PrefixCommitted /\ PrefixCommitted']_vars

\* The process was killed after the third commit of a cycle that moved the
\* filmworks watermark and would have moved the one of genres.
C34_Witness ==
    /\ pc = "down"
    /\ interrupted.at = "commit"
    /\ interrupted.step = 4
    /\ state_file.ok
    /\ get_state(state_file, "filmworks") # get_state(interrupted.start_state, "filmworks")
    /\ get_state(state_file, "genres") # interrupted.raw_data["genres"].new_state

\* ------------------------------------------------------------------- C35
\* A cycle has committed its five watermarks and all its batches were
\* empty.
EmptyCycleDone ==
    /\ pc = "sleep"
    /\ error = "none"
    /\ DOMAIN raw_data = KeySet
    /\ \A k \in KeySet : raw_data[k].data = << >>

\* Every stream reads the watermark it read when the cycle started.
WatermarksUnchanged ==
    /\ state_file.ok
    /\ \A k \in KeySet : get_state(state_file, k) = get_state(start_state, k)

\* The changed-persons query of fw_by_person and the changed-genres query
\* of fw_by_genre returned no row: these batches carry the watermark their
\* stream had (with a row they carry the row's modified).
NoDrivingRows ==
    /\ raw_data["fw_persons"].new_state = get_state(start_state, "fw_persons")
    /\ raw_data["fw_genres"].new_state = get_state(start_state, "fw_genres")

\* C35 as stated: a successful cycle in which all five batches are empty
\* leaves every stream's readable watermark unchanged.
C35_EmptyCycleKeepsWatermarks == EmptyCycleDone => WatermarksUnchanged

\* C35 amended: the same for a cycle in which, besides, the changed-persons
\* and changed-genres queries returned no row; on a first run the value
\* committed is the absent watermark (null), and every stream still reads
\* from the beginning of time.
C35_QuietCycleKeepsWatermarks ==
    (EmptyCycleDone /\ NoDrivingRows)
        => /\ WatermarksUnchanged
           /\ \A k \in KeySet :
                 get_state(start_state, k) = None
                    => LastModified(get_state(state_file, k)) = DatetimeMin

\* The first cycle on an empty source has committed the absent watermark
\* for the five streams.
C35_Witness ==
    /\ EmptyCycleDone
    /\ NoDrivingRows
    /\ start_state.data = << >>
    /\ DOMAIN state_file.data = KeySet
    /\ \A k \in KeySet : state_file.data[k] = None

\* The cycle ended because load number loads_ok + 1 of load_data raised.
LoadRaisedAfter(n) == pc = "sleep" /\ error = "load" /\ loads_ok = n

\* The documents of the loads that returned are in the document store.
EarlierLoadsStay ==
    \A i \in 1..loads_ok :
        LoadByIndex(es[Indexes[i]], transformed_data[i]) = es[Indexes[i]]

\* load_data writes movies, then genres, then persons.
WritesInOrder ==
    \A i \in 1..Len(Indexes) :
        es'[Indexes[i]] # es[Indexes[i]] =>
            pc = "load" /\ step = i /\ loads_ok = i - 1

\* The cycle after one whose load_data raised has extracted its batches.
ExtractedAfterRaise == pc = "transform" /\ raised # NotRaised

\* Every record of the batches of the cycle that raised is pending again.
PendingAgain == \A k \in KeySet : raised.ids[k] \subseteq PendingIds(k)

\* Every record of the batches of the cycle that raised is in the batch of
\* the same stream of this cycle.
DeliveredAgain == \A k \in KeySet : raised.ids[k] \subseteq Ids(raw_data[k].data)

\* C36 as stated: load_data writes movies, then genres, then persons; when
\* a later load raises, the documents of the earlier loads stay in the
\* document store while no watermark advances; and the batches of the next
\* cycle contain the records of the cycle that raised.
C36_PartialDeliveryRepeated ==
    [][/\ WritesInOrder
       /\ (\E n \in 1..(Len(Indexes) - 1) : LoadRaisedAfter(n))' =>
              (EarlierLoadsStay /\ state_file = start_state)'
       /\ ExtractedAfterRaise' => DeliveredAgain']_vars

\* C36 as amended: the same, and the records of the cycle that raised are
\* pending again in the next cycle, whose batch of a stream contains them
\* whenever what is pending for that stream fits into one page of L rows.
C36_PartialDeliveryPendingAgain ==
    [][/\ WritesInOrder
       /\ (\E n \in 1..(Len(Indexes) - 1) : LoadRaisedAfter(n))' =>
              (EarlierLoadsStay /\ state_file = start_state)'
       /\ ExtractedAfterRaise' =>
              /\ PendingAgain'
              /\ \A k \in KeySet :
                    FitsPage(k)' =>
                        raised.ids[k] \subseteq Ids(raw_data[k].data)']_vars

\* The movies load of a cycle returned and a later load raised, no
\* watermark is committed while the movies index holds the documents, and
\* the next cycle has extracted the same records again.
C36_Witness ==
    /\ ExtractedAfterRaise
    /\ raised.loads_ok >= 1
    /\ state_file.data = << >>
    /\ \E k \in FilmStreams : raised.ids[k] # {}
    /\ \A k \in FilmStreams :
          \A id \in raised.ids[k] : \E d \in es["movies"] : d.id = id
    /\ DeliveredAgain

\* ------------------------------------------------------------------- C37
\* The possible outcomes of the endpoint of request req.
Outcomes(req, c, docs, now, redis_up, es_up) ==
    CASE req.kind = "details" ->
            {details_endpoint(c, docs, now, req.film_uuid, redis_up)}
      [] req.kind = "films" ->
            films_endpoint(c, docs, now, req.sort, req.genre, req.page_size, req.page_number, redis_up, es_up)
      [] OTHER ->
            search_endpoint(c, docs, now, req.query, req.page_size, req.page_number, redis_up, es_up)

\* With Redis in state redis_up, a call of Redis that the handling of req
\* with outcome o made has raised: the read, or the write (get_film_by_id
\* writes a film it found, the list methods write every fetched list).
CacheCallRaised(req, o, redis_up) ==
    /\ o.status # UNPROCESSABLE_ENTITY
    /\ \/ ~redis_up.get
       \/ /\ ~redis_up.put
          /\ ~o.cached
          /\ req.kind = "details" => o.status = OK

\* C37: a cache failure never fails a read request: if the cache read or
\* the cache write raises, get_film_by_id, get_films and
\* get_films_by_search return what they would return with an empty cache
\* (the document-store result), and the response is 200 or 404.
C37_CacheFailureIsMiss ==
    [][RequestStep =>
          \A es_up \in BOOLEAN :
              LET miss == {[status |-> e.status, body |-> e.body, detail |-> e.detail] :
                             e \in Outcomes(request', {}, es["movies"], clock, RedisUp, es_up)}
              IN  \A redis_up \in RedisStates \ {RedisUp} :
                      \A o \in Outcomes(request', cache, es["movies"], clock, redis_up, es_up) :
                          (CacheCallRaised(request', o, redis_up) /\ Answered(request', o)) =>
                              /\ response'.status \in {OK, NOT_FOUND}
                              /\ [status |-> response'.status, body |-> response'.body, detail |-> response'.detail] \in miss]_vars

\* A details request was answered 200 from the document store and the
\* film is not in the cache afterwards: the cache write raised.
C37_Witness ==
    /\ request.kind = "details"
    /\ response.status = OK
    /\ response.at = clock - 1
    /\ [request |-> request, response |-> response] \in served
    /\ \A e \in cache : e.key # FilmKey(request.film_uuid)

\* ------------------------------------------------------------------- C38
\* The cache key the endpoint of list request req makes.
CacheKeyOf(req) ==
    LET size == Given(req.page_size, PageSizeDefault)
        number == Given(req.page_number, PageNumberDefault)
        s == Given(req.sort, "-imdb_rating")
    IN  IF req.kind = "films"
        THEN generate_cache_key(size, number, << "imdb_rating" >>, req.genre, << IF s = "-imdb_rating" THEN "desc" ELSE "asc" >>, JsonNull)
        ELSE generate_cache_key(size, number, JsonNull, JsonNull, JsonNull, req.query)

\* Redis holds the empty list under the key of list request req: the
\* request yielded no films less than a cache TTL ago.
EmptyListCached(req) ==
    RedisGet(cache, clock, CacheKeyOf(req)) = << model_dump_json(<< >>) >>

\* C38: an empty list result is never served from the cache: a 404 of a
\* list or search request is computed from the document store, and while
\* the empty list of an earlier identical request is cached, the request
\* is answered from the document store: 404 when the query yields no films
\* (no match, missing index, error of the document store), 200 with the
\* films as soon as the document store has matching films on the page.
C38_EmptyListNotServedFromCache ==
    [][(RequestStep /\ request'.kind \in ListKinds /\ response'.status # UNPROCESSABLE_ENTITY) =>
          \A es_up \in BOOLEAN :
              LET store == {[status |-> e.status, body |-> e.body, detail |-> e.detail] :
                              e \in Outcomes(request', {}, es["movies"], clock, RedisUp, es_up)}
              IN  \A redis_up \in RedisStates :
                      \A o \in Outcomes(request', cache, es["movies"], clock, redis_up, es_up) :
                          Answered(request', o) =>
                              /\ response'.status = NOT_FOUND => ~o.cached
                              /\ (response'.status = NOT_FOUND \/ EmptyListCached(request')) =>
                                    [status |-> response'.status, body |-> response'.body, detail |-> response'.detail] \in store
                              /\ (EmptyListCached(request') /\ es_up /\ PageCount(request', es["movies"]) > 0) =>
                                    (response'.status = OK /\ ~o.cached)]_vars

\* A list request is answered 200 while Redis still holds the empty list
\* an earlier identical request left (the cache write of this request
\* raised).
C38_Witness ==
    /\ request.kind \in ListKinds
    /\ response.status = OK
    /\ response.at = clock - 1
    /\ EmptyListCached(request)
====
